---- MODULE Spec2Model ----
(***************************************************************************)
(* State-machine model of the availability calendar component              *)
(* (src/components/UnifiedGroupCalendar.tsx, second component of the file, *)
(* lines 573-1635).                                                        *)
(*                                                                         *)
(* Times are JavaScript numbers in hours.  They are represented here as    *)
(* integers counting 1/960 of an hour, the common denominator of the two   *)
(* sources of fractional hours in the code: one pixel is 1/64 hour         *)
(* (hourHeight) and one minute is 1/60 hour (m / 60).                      *)
(***************************************************************************)
EXTENDS Integers, Sequences, FiniteSets, TLC

----------------------------------------------------------------------------
(* Bounds of the model *)

NumDays == 2          \* the first NumDays entries of days are used by inputs
NumCellHours == 3     \* grid rows 9 .. 9+NumCellHours-1 receive pointer events
NumMembers == 3       \* size of the members prop
MaxNextId == 2        \* additive edits stop when nextId reaches this value
NumMouseY == 2        \* number of pointer heights used by resize moves
MergeMaxLen == 3      \* longest input array of the merge specification
MergeHours == 3       \* merge inputs have bounds in 8 .. 8+MergeHours
NumSchedules == 6     \* number of weekly schedules a member may have
MaxGroupSize == 6     \* largest group size given to the suggestion engine

----------------------------------------------------------------------------
(* Program constants and number representation *)

hourHeight == 64
MinutesPerHour == 60
RECURSIVE GCD(_, _)
GCD(a, b) == IF b = 0 THEN a ELSE GCD(b, a % b)
TicksPerPixel == MinutesPerHour \div GCD(hourHeight, MinutesPerHour)
TicksPerHour == hourHeight * TicksPerPixel
TicksPerMinute == TicksPerHour \div MinutesPerHour
FirstHour == 8
LastHour == 22
MinSpan == TicksPerHour \div 4
MinHandleHeight == 16

Hr(n) == n * TicksPerHour

days ==
  <<"Sunday", "Monday", "Tuesday", "Wednesday", "Thursday", "Friday", "Saturday">>

hours == FirstHour .. (FirstHour + 13)

UserIds == <<"u1", "u2", "u3", "u4">>
currentUserId == UserIds[1]
members == {UserIds[i] : i \in 1..NumMembers}

Max(a, b) == IF a >= b THEN a ELSE b
Min(a, b) == IF a <= b THEN a ELSE b

indexToDay(index) == days[index + 1]
dayToIndex(day) ==
  IF \E i \in 1..Len(days) : days[i] = day
    THEN (CHOOSE i \in 1..Len(days) : days[i] = day) - 1
    ELSE -1

----------------------------------------------------------------------------
(* Strings are sequences of one-character strings; parseInt and split work *)
(* on them as the JavaScript functions do.                                 *)

DigitChars == <<"0", "1", "2", "3", "4", "5", "6", "7", "8", "9">>
IsDigit(c) == \E i \in 1..10 : DigitChars[i] = c
DigitVal(c) == (CHOOSE i \in 1..10 : DigitChars[i] = c) - 1

NaN == [nan |-> TRUE, val |-> 0]
Num(n) == [nan |-> FALSE, val |-> n]

RECURSIVE ParseDigits(_, _, _, _)
ParseDigits(s, i, acc, seen) ==
  IF i <= Len(s) /\ IsDigit(s[i])
    THEN ParseDigits(s, i + 1, 10 * acc + DigitVal(s[i]), TRUE)
    ELSE IF seen THEN Num(acc) ELSE NaN

parseInt(s) ==
  IF Len(s) > 0 /\ s[1] = "-"
    THEN LET r == ParseDigits(s, 2, 0, FALSE)
         IN IF r.nan THEN NaN ELSE Num(0 - r.val)
    ELSE ParseDigits(s, 1, 0, FALSE)

(* convertTo24Hour: 12-hour clock fields to a decimal hour (in ticks). *)
convertTo24Hour(hour, minute, period) ==
  LET h == parseInt(hour)
      m == parseInt(minute)
  IN IF h.nan \/ m.nan THEN 0
     ELSE LET h1 == IF period = "PM" /\ h.val # 12 THEN h.val + 12 ELSE h.val
              h2 == IF period = "AM" /\ h1 = 12 THEN 0 ELSE h1
          IN Hr(h2) + m.val * TicksPerMinute

(* Mutation: the pointer height without the clamp to the grid. *)
getHourFromMouseYRaw(y) == Hr(FirstHour) + y * TicksPerPixel

(* getHourFromMouseY: y is clientY - rect.top in pixels. *)
getHourFromMouseY(y) ==
  Max(Hr(FirstHour), Min(Hr(LastHour), Hr(FirstHour) + y * TicksPerPixel))

----------------------------------------------------------------------------
(* Blocks and the merge *)

Block(id, day, startHour, endHour, status, userId) ==
  [id |-> id, day |-> day, startHour |-> startHour, endHour |-> endHour,
   status |-> status, userId |-> userId]

Statuses == {"available", "busy"}

(* The (day, status, start, end) content of an array of blocks. *)
Intervals(bs) ==
  {<<bs[i].day, bs[i].status, bs[i].startHour, bs[i].endHour>> : i \in DOMAIN bs}

(* Keys of groupedByDay in insertion order. *)
RECURSIVE GroupKeys(_, _, _)
GroupKeys(bs, i, acc) ==
  IF i > Len(bs) THEN acc
  ELSE LET key == <<bs[i].day, bs[i].status>>
       IN GroupKeys(bs, i + 1,
            IF \E j \in DOMAIN acc : acc[j] = key THEN acc ELSE Append(acc, key))

(* Array.prototype.sort by startHour, stable. *)
RECURSIVE InsertByStart(_, _)
InsertByStart(sorted, b) ==
  IF sorted = << >> THEN <<b>>
  ELSE IF sorted[Len(sorted)].startHour <= b.startHour THEN Append(sorted, b)
  ELSE Append(InsertByStart(SubSeq(sorted, 1, Len(sorted) - 1), b),
              sorted[Len(sorted)])

RECURSIVE SortByStart(_, _, _)
SortByStart(bs, i, acc) ==
  IF i > Len(bs) THEN acc ELSE SortByStart(bs, i + 1, InsertByStart(acc, bs[i]))

(* The for loop of lines 1155-1169 over one sorted group. *)
RECURSIVE MergeRun(_, _, _, _)
MergeRun(sorted, i, current, merged) ==
  IF i > Len(sorted) THEN Append(merged, current)
  ELSE LET next == sorted[i]
       IN IF next.startHour <= current.endHour
            THEN MergeRun(sorted, i + 1,
                   [current EXCEPT !.endHour = Max(current.endHour, next.endHour)],
                   merged)
            ELSE MergeRun(sorted, i + 1, next, Append(merged, current))

(* Mutations of the merge loop: the comparison with the previous block of  *)
(* the sorted array, and the comparison without the touching case.         *)
RECURSIVE MergeRunPrev(_, _, _, _)
MergeRunPrev(sorted, i, current, merged) ==
  IF i > Len(sorted) THEN Append(merged, current)
  ELSE LET next == sorted[i]
       IN IF next.startHour <= sorted[i - 1].endHour
            THEN MergeRunPrev(sorted, i + 1,
                   [current EXCEPT !.endHour = Max(current.endHour, next.endHour)],
                   merged)
            ELSE MergeRunPrev(sorted, i + 1, next, Append(merged, current))

RECURSIVE MergeRunStrict(_, _, _, _)
MergeRunStrict(sorted, i, current, merged) ==
  IF i > Len(sorted) THEN Append(merged, current)
  ELSE LET next == sorted[i]
       IN IF next.startHour < current.endHour
            THEN MergeRunStrict(sorted, i + 1,
                   [current EXCEPT !.endHour = Max(current.endHour, next.endHour)],
                   merged)
            ELSE MergeRunStrict(sorted, i + 1, next, Append(merged, current))

(* Mutation: a merged block takes the end of the block merged last. *)
RECURSIVE MergeRunLastEnd(_, _, _, _)
MergeRunLastEnd(sorted, i, current, merged) ==
  IF i > Len(sorted) THEN Append(merged, current)
  ELSE LET next == sorted[i]
       IN IF next.startHour <= current.endHour
            THEN MergeRunLastEnd(sorted, i + 1,
                   [current EXCEPT !.endHour = next.endHour], merged)
            ELSE MergeRunLastEnd(sorted, i + 1, next, Append(merged, current))

MergeGroupLastEnd(dayBlocks) ==
  LET sorted == SortByStart(dayBlocks, 1, << >>)
  IN MergeRunLastEnd(sorted, 2, sorted[1], << >>)

MergeGroupPrev(dayBlocks) ==
  LET sorted == SortByStart(dayBlocks, 1, << >>)
  IN MergeRunPrev(sorted, 2, sorted[1], << >>)

MergeGroupStrict(dayBlocks) ==
  LET sorted == SortByStart(dayBlocks, 1, << >>)
  IN MergeRunStrict(sorted, 2, sorted[1], << >>)

MergeGroup(dayBlocks) ==
  LET sorted == SortByStart(dayBlocks, 1, << >>)
  IN MergeRun(sorted, 2, sorted[1], << >>)

RECURSIVE MergeGroups(_, _, _, _)
MergeGroups(bs, keys, k, merged) ==
  IF k > Len(keys) THEN merged
  ELSE LET InGroup(b) == <<b.day, b.status>> = keys[k]
       IN MergeGroups(bs, keys, k + 1, merged \o MergeGroup(SelectSeq(bs, InGroup)))

mergeOverlappingBlocks(bs) ==
  MergeGroups(bs, GroupKeys(bs, 1, << >>), 1, << >>)

----------------------------------------------------------------------------
(* Overlap tests, written as the code writes them *)

(* Mutation: the cell test without the clause on the block's end. *)
CellRangeOverlapStart(block, minHour, maxHour) ==
  \/ (block.startHour >= minHour /\ block.startHour < maxHour + Hr(1))
  \/ (block.startHour <= minHour /\ block.endHour >= maxHour + Hr(1))

(* hasOverlap of handleMouseUp: block against the cells minHour..maxHour. *)
CellRangeOverlap(block, minHour, maxHour) ==
  \/ (block.startHour >= minHour /\ block.startHour < maxHour + Hr(1))
  \/ (block.endHour > minHour /\ block.endHour <= maxHour + Hr(1))
  \/ (block.startHour <= minHour /\ block.endHour >= maxHour + Hr(1))

(* Mutation: the range test without the clause on a block inside the range. *)
RangeConflictEnds(startHour, endHour, block) ==
  \/ (startHour >= block.startHour /\ startHour < block.endHour)
  \/ (endHour > block.startHour /\ endHour <= block.endHour)

(* Mutation: the range test with a range that ends where the block starts, *)
(* or starts where it ends, counted as overlapping.                        *)
RangeConflictTouching(startHour, endHour, block) ==
  \/ (startHour >= block.startHour /\ startHour <= block.endHour)
  \/ (endHour >= block.startHour /\ endHour <= block.endHour)
  \/ (startHour <= block.startHour /\ endHour >= block.endHour)

(* The test of handleAddTimeBlock and of the resize onMouseMove: the range *)
(* startHour..endHour against an existing block.                          *)
RangeConflict(startHour, endHour, block) ==
  \/ (startHour >= block.startHour /\ startHour < block.endHour)
  \/ (endHour > block.startHour /\ endHour <= block.endHour)
  \/ (startHour <= block.startHour /\ endHour >= block.endHour)

----------------------------------------------------------------------------
(* Persisted records and their parsing *)

RECURSIVE SplitFrom(_, _, _, _, _)
SplitFrom(s, sep, i, cur, acc) ==
  IF i > Len(s) THEN Append(acc, cur)
  ELSE IF s[i] = sep THEN SplitFrom(s, sep, i + 1, << >>, Append(acc, cur))
  ELSE SplitFrom(s, sep, i + 1, Append(cur, s[i]), acc)

split(s, sep) == SplitFrom(s, sep, 1, << >>, << >>)

Record(id, user, dayOfWeek, startTime, endTime, status) ==
  [id |-> id, user_id |-> user, day_of_week |-> dayOfWeek,
   start_time |-> startTime, end_time |-> endTime, status |-> status]

(* data.map of loadAllAvailability; index is the 0-based array index. *)
LoadedBlock(record, index) ==
  LET startHour == parseInt(split(record.start_time, ":")[1]).val
      startMinute == parseInt(split(record.start_time, ":")[2]).val
      endHour == parseInt(split(record.end_time, ":")[1]).val
      endMinute == parseInt(split(record.end_time, ":")[2]).val
  IN Block(<<"loaded", record.id, index>>,
           indexToDay(record.day_of_week),
           Hr(startHour) + startMinute * TicksPerMinute,
           Hr(endHour) + endMinute * TicksPerMinute,
           record.status, record.user_id)

LoadedBlocks(data) == [i \in DOMAIN data |-> LoadedBlock(data[i], i - 1)]

IsMine(b) == b.userId = currentUserId
IsOther(b) == b.userId # currentUserId

(* Number.prototype.toString of a non-negative integer, and padStart. *)
RECURSIVE toString(_)
toString(n) ==
  IF n < 10 THEN <<DigitChars[n + 1]>>
  ELSE Append(toString(n \div 10), DigitChars[(n % 10) + 1])

RECURSIVE padStart(_, _, _)
padStart(s, targetLength, padString) ==
  IF Len(s) >= targetLength THEN s
  ELSE padStart(<<padString>> \o s, targetLength, padString)

(* Mutation: the fraction of the hour written as hundredths. *)
ClockStringHundredths(hour) ==
  LET hourInt == hour \div TicksPerHour
      minute == ((hour - Hr(hourInt)) * 100 + TicksPerHour \div 2) \div TicksPerHour
  IN padStart(toString(hourInt), 2, "0") \o <<":">>
       \o padStart(toString(minute), 2, "0") \o <<":", "0", "0">>

(* The start_time / end_time string of handleSave: Math.floor of the hour, *)
(* Math.round of the fraction times 60 (halves round up).                  *)
ClockString(hour) ==
  LET hourInt == hour \div TicksPerHour
      minute == ((hour - Hr(hourInt)) + TicksPerMinute \div 2) \div TicksPerMinute
  IN padStart(toString(hourInt), 2, "0") \o <<":">>
       \o padStart(toString(minute), 2, "0") \o <<":", "0", "0">>

(* blocks.map of handleSave; the table assigns the id on insert. *)
AvailabilityRecord(block) ==
  [user_id |-> currentUserId,
   day_of_week |-> dayToIndex(block.day),
   start_time |-> ClockString(block.startHour),
   end_time |-> ClockString(block.endHour),
   status |-> block.status]

availabilityRecords(bs) == [i \in DOMAIN bs |-> AvailabilityRecord(bs[i])]

(* The rows of the local person in the table, and what they say. *)
OwnRows(table) ==
  LET Own(r) == r.user_id = currentUserId IN SelectSeq(table, Own)

OtherRows(table) ==
  LET Other(r) == r.user_id # currentUserId IN SelectSeq(table, Other)

RowContent(rows) ==
  {<<rows[i].day_of_week, rows[i].start_time, rows[i].end_time, rows[i].status>> :
     i \in DOMAIN rows}

----------------------------------------------------------------------------
(* Inputs *)

(* Days offered by the form's day select, and the column of grid cells that *)
(* receives pointer events.                                                  *)
InputDays == {days[i] : i \in 1..NumDays}
CellDays == {days[NumDays]}
CellHours == {Hr(h) : h \in (FirstHour + 1) .. Min(FirstHour + NumCellHours, LastHour - 1)}

(* Pointer heights (clientY - rect.top, in pixels): above the grid (8.0),   *)
(* below the grid (22.0), between quarter hours (10.625), then 11.25, 9.5   *)
(* and 12.0.                                                                *)
MouseYTable == <<-64, 1000, 168, 208, 96, 256>>
MouseYs == {MouseYTable[i] : i \in 1..Min(NumMouseY, Len(MouseYTable))}

Clock(hour, minute, period) == [hour |-> hour, minute |-> minute, period |-> period]

(* Entries of the start fields of the exact-time form: a missing hour,     *)
(* 7:30 AM, 8:00 AM, 9:00 AM and 12:00 AM.                                  *)
StartClocks ==
  { Clock(<< >>, <<"0", "0">>, "AM"),
    Clock(<<"7">>, <<"3", "0">>, "AM"),
    Clock(<<"8">>, <<"0", "0">>, "AM"),
    Clock(<<"9">>, <<"0">>, "AM"),
    Clock(<<"1", "2">>, <<"0", "0">>, "AM") }

(* Entries of the end fields: a missing minute, 8:05 AM, 11:00 AM and       *)
(* 10:05 PM.                                                                *)
EndClocks ==
  { Clock(<<"9">>, << >>, "AM"),
    Clock(<<"8">>, <<"0", "5">>, "AM"),
    Clock(<<"1", "1">>, <<"0", "0">>, "AM"),
    Clock(<<"1", "0">>, <<"0", "5">>, "PM") }

TimeInputs ==
  [day : InputDays \cup {""}, start : StartClocks, end : EndClocks]

T0900 == <<"0", "9", ":", "0", "0", ":", "0", "0">>
T0930 == <<"0", "9", ":", "3", "0", ":", "0", "0">>
T1000 == <<"1", "0", ":", "0", "0", ":", "0", "0">>
T1100 == <<"1", "1", ":", "0", "0", ":", "0", "0">>

(* Contents of the availability table for the group when the page opens:   *)
(* a record of another member; a record the local person saved earlier;     *)
(* records of the local person and of the other members; and records of two *)
(* members whose saves from two sessions have interleaved, which leaves the *)
(* rows of both sessions in the table.                                      *)
PersistedOptions ==
  { <<Record(11, UserIds[2], 1, T0900, T1100, "available")>>,
    <<Record(21, UserIds[1], 1, T0930, T1000, "busy")>>,
    <<Record(31, UserIds[1], 1, T1000, T1100, "available"),
      Record(32, UserIds[2], 1, T0930, T1100, "available"),
      Record(33, UserIds[3], 1, T0900, T1100, "available"),
      Record(34, UserIds[2], 0, T0900, T1000, "busy")>>,
    <<Record(41, UserIds[2], 1, T0900, T1100, "available"),
      Record(42, UserIds[2], 1, T1000, T1100, "available"),
      Record(43, UserIds[3], 1, T0900, T1000, "busy"),
      Record(44, UserIds[3], 1, T0930, T1000, "busy")>> }

InMembers(r) == r.user_id \in members

----------------------------------------------------------------------------
(* Suggestion engine.  The repository documents the feature (README,       *)
(* "Smart Meeting Suggestions") without its code; the operators follow     *)
(* section 4.5 of the specification.                                       *)

SamplesPerHour == 4
SampleStep == TicksPerHour \div SamplesPerHour
SamplesPerDay == (LastHour - FirstHour) * SamplesPerHour
DefaultTopN == 3

MeetingSuggestion(day, start, end, attendance) ==
  [day |-> day, start |-> start, end |-> end, attendance |-> attendance]

noSegment == MeetingSuggestion("null", 0, 0, 0)

(* Count of distinct owners with an Available interval covering hour. *)
attendanceAt(allIntervals, day, hour) ==
  Cardinality({ allIntervals[i].userId :
                  i \in { j \in DOMAIN allIntervals :
                            /\ allIntervals[j].day = day
                            /\ allIntervals[j].status = "available"
                            /\ allIntervals[j].startHour <= hour
                            /\ hour < allIntervals[j].endHour } })

threshold(groupSize) == Max(2, groupSize \div 2)

(* Mutation: a run is extended while the attendance meets the threshold,   *)
(* whether or not it changes.                                              *)
RECURSIVE scanDayMerged(_, _, _, _, _, _)
scanDayMerged(allIntervals, groupSize, day, k, open, acc) ==
  IF k = SamplesPerDay
  THEN IF open = noSegment THEN acc ELSE Append(acc, open)
  ELSE LET hour == Hr(FirstHour) + k * SampleStep
           attendance == attendanceAt(allIntervals, day, hour)
       IN IF attendance >= threshold(groupSize)
          THEN IF open = noSegment
               THEN scanDayMerged(allIntervals, groupSize, day, k + 1,
                      MeetingSuggestion(day, hour, hour + SampleStep, attendance),
                      acc)
               ELSE scanDayMerged(allIntervals, groupSize, day, k + 1,
                      [open EXCEPT !.end = hour + SampleStep], acc)
          ELSE scanDayMerged(allIntervals, groupSize, day, k + 1, noSegment,
                 IF open = noSegment THEN acc ELSE Append(acc, open))

(* The scan of one day from sample k on: open is the running segment, acc  *)
(* the segments closed so far.                                             *)
RECURSIVE scanDay(_, _, _, _, _, _)
scanDay(allIntervals, groupSize, day, k, open, acc) ==
  IF k = SamplesPerDay
  THEN IF open = noSegment THEN acc ELSE Append(acc, open)
  ELSE LET hour == Hr(FirstHour) + k * SampleStep
           attendance == attendanceAt(allIntervals, day, hour)
       IN IF attendance >= threshold(groupSize)
          THEN IF open = noSegment
               THEN scanDay(allIntervals, groupSize, day, k + 1,
                      MeetingSuggestion(day, hour, hour + SampleStep, attendance),
                      acc)
               ELSE IF open.attendance = attendance
               THEN scanDay(allIntervals, groupSize, day, k + 1,
                      [open EXCEPT !.end = hour + SampleStep], acc)
               ELSE scanDay(allIntervals, groupSize, day, k + 1,
                      MeetingSuggestion(day, hour, hour + SampleStep, attendance),
                      Append(acc, open))
          ELSE scanDay(allIntervals, groupSize, day, k + 1, noSegment,
                 IF open = noSegment THEN acc ELSE Append(acc, open))

(* The segments of the days from d on, in order of discovery. *)
RECURSIVE collectSegments(_, _, _)
collectSegments(allIntervals, groupSize, d) ==
  IF d > Len(days) THEN << >>
  ELSE scanDay(allIntervals, groupSize, days[d], 0, noSegment, << >>)
         \o collectSegments(allIntervals, groupSize, d + 1)

(* Mutation: the longer segment first, then the higher attendance. *)
ranksBeforeLongest(a, b) ==
  \/ (a.end - a.start) > (b.end - b.start)
  \/ /\ (a.end - a.start) = (b.end - b.start)
     /\ a.attendance > b.attendance

(* Attendance descending, ties by duration descending. *)
ranksBefore(a, b) ==
  \/ a.attendance > b.attendance
  \/ /\ a.attendance = b.attendance
     /\ (a.end - a.start) > (b.end - b.start)

(* Stable insertion: equal segments stay in order of discovery. *)
RECURSIVE insertRanked(_, _, _)
insertRanked(sorted, segment, i) ==
  IF i > Len(sorted) THEN Append(sorted, segment)
  ELSE IF ranksBefore(segment, sorted[i])
       THEN SubSeq(sorted, 1, i - 1) \o <<segment>> \o SubSeq(sorted, i, Len(sorted))
       ELSE insertRanked(sorted, segment, i + 1)

RECURSIVE sortSegments(_, _, _)
sortSegments(segments, i, sorted) ==
  IF i > Len(segments) THEN sorted
  ELSE sortSegments(segments, i + 1, insertRanked(sorted, segments[i], 1))

(* Mutation: the first topN segments in order of discovery. *)
suggestMeetingTimesUnsorted(allIntervals, groupSize, topN) ==
  LET segments == collectSegments(allIntervals, groupSize, 1)
  IN SubSeq(segments, 1, Min(topN, Len(segments)))

suggestMeetingTimes(allIntervals, groupSize, topN) ==
  LET segments == collectSegments(allIntervals, groupSize, 1)
      sorted == sortSegments(segments, 1, << >>)
  IN SubSeq(sorted, 1, Min(topN, Len(sorted)))

(* The arguments the engine is called with and, once it has been called,  *)
(* the list it returned.                                                   *)
Suggested(groupSize, topN, computed, result) ==
  [groupSize |-> groupSize, topN |-> topN, computed |-> computed,
   result |-> result]

NoSuggestions == Suggested(0, 0, FALSE, << >>)

(* Weekly schedules a member of the group may have: none; Tuesday 14-15;   *)
(* Monday 8-10 and Tuesday 14-15; Monday 9-10 and Saturday 20-22; Tuesday  *)
(* 14-16 and Saturday 21-22; Tuesday 14-15 busy with two overlapping       *)
(* Monday rows, 8:10-9:20 and 8:30-10; Monday 8-9 and Monday 9:30-10.      *)
Interval(day, startHour, endHour, status) ==
  [day |-> day, startHour |-> startHour, endHour |-> endHour, status |-> status]

ScheduleTable ==
  << << >>,
     <<Interval(days[3], Hr(14), Hr(15), "available")>>,
     <<Interval(days[2], Hr(8), Hr(10), "available"),
       Interval(days[3], Hr(14), Hr(15), "available")>>,
     <<Interval(days[2], Hr(9), Hr(10), "available"),
       Interval(days[7], Hr(20), Hr(22), "available")>>,
     <<Interval(days[3], Hr(14), Hr(16), "available"),
       Interval(days[7], Hr(21), Hr(22), "available")>>,
     <<Interval(days[3], Hr(14), Hr(15), "busy"),
       Interval(days[2], Hr(8) + 10 * TicksPerMinute,
                Hr(9) + 20 * TicksPerMinute, "available"),
       Interval(days[2], Hr(8) + 30 * TicksPerMinute, Hr(10), "available")>>,
     <<Interval(days[2], Hr(8), Hr(9), "available"),
       Interval(days[2], Hr(9) + 30 * TicksPerMinute, Hr(10), "available")>> >>

Schedules == 1 .. Min(NumSchedules, Len(ScheduleTable))

MemberBlocks(u, k) ==
  [i \in DOMAIN ScheduleTable[k] |->
     Block(<<"loaded", u, i>>, ScheduleTable[k][i].day,
           ScheduleTable[k][i].startHour, ScheduleTable[k][i].endHour,
           ScheduleTable[k][i].status, UserIds[u])]

GroupSizes == Len(UserIds) .. MaxGroupSize
TopNs == 1 .. DefaultTopN

----------------------------------------------------------------------------
(* State *)

VARIABLES
  blocks, allMemberBlocks, nextId, blockType, showTimeInput,
  visibleMembers, showOnlyOverlapFree, showOnlyOverlapBusy,
  isDragging, dragStartCell, dragCurrentCell, dragMode,
  isResizing, resizingBlockId, resizeEdge, resizeDay,
  db, loadState,
  saving, saveMessage, messageTimer, savePc, saveRecords, persistedBefore,
  suggestions

dragVars == <<isDragging, dragStartCell, dragCurrentCell, dragMode>>
resizeVars == <<isResizing, resizingBlockId, resizeEdge, resizeDay>>
filterVars == <<showOnlyOverlapFree, showOnlyOverlapBusy>>
dataVars == <<blocks, allMemberBlocks, nextId>>
vars ==
  <<blocks, allMemberBlocks, nextId, blockType, showTimeInput,
    visibleMembers, showOnlyOverlapFree, showOnlyOverlapBusy,
    isDragging, dragStartCell, dragCurrentCell, dragMode,
    isResizing, resizingBlockId, resizeEdge, resizeDay,
    db, loadState,
    saving, saveMessage, messageTimer, savePc, saveRecords, persistedBefore,
    suggestions>>

(* The sessions that save for the local person: this component, and the     *)
(* same page open a second time for the same account and group.             *)
Sessions == {"local", "peer"}

saveVars ==
  <<saving, saveMessage, messageTimer, savePc, saveRecords, persistedBefore>>

(* No save has been requested. *)
SaveIdle ==
  /\ saving = [s \in Sessions |-> FALSE]
  /\ saveMessage = [s \in Sessions |-> ""]
  /\ messageTimer = [s \in Sessions |-> FALSE]
  /\ savePc = [s \in Sessions |-> "idle"]
  /\ saveRecords = [s \in Sessions |-> << >>]
  /\ persistedBefore = [s \in Sessions |-> << >>]

null == [day |-> "null", hour |-> 0]
nullId == << >>

Init ==
  /\ blocks = << >>
  /\ allMemberBlocks = << >>
  /\ nextId = 0
  /\ blockType = "available"
  /\ showTimeInput = FALSE
  /\ visibleMembers = {currentUserId}
  /\ showOnlyOverlapFree = FALSE
  /\ showOnlyOverlapBusy = FALSE
  /\ isDragging = FALSE
  /\ dragStartCell = null
  /\ dragCurrentCell = null
  /\ dragMode = "add"
  /\ isResizing = FALSE
  /\ resizingBlockId = nullId
  /\ resizeEdge = "null"
  /\ resizeDay = "null"
  /\ loadState = "pending"
  /\ db \in {SelectSeq(data, InMembers) : data \in PersistedOptions}
  /\ SaveIdle
  /\ suggestions = NoSuggestions

(* The state once the load has returned the records of data. *)
Loaded(data) ==
  /\ blocks = SelectSeq(LoadedBlocks(data), IsMine)
  /\ allMemberBlocks = SelectSeq(LoadedBlocks(data), IsOther)
  /\ nextId = Len(data)
  /\ blockType = "available"
  /\ showTimeInput = FALSE
  /\ visibleMembers = {currentUserId}
  /\ showOnlyOverlapFree = FALSE
  /\ showOnlyOverlapBusy = FALSE
  /\ isDragging = FALSE
  /\ dragStartCell = null
  /\ dragCurrentCell = null
  /\ dragMode = "add"
  /\ isResizing = FALSE
  /\ resizingBlockId = nullId
  /\ resizeEdge = "null"
  /\ resizeDay = "null"
  /\ db = data
  /\ loadState = "done"
  /\ SaveIdle
  /\ suggestions = NoSuggestions

(* The group has no availability records and the load has returned. *)
InitEmpty == Loaded(<< >>)

(* The load has returned the persisted records before the first input. *)
InitLoaded ==
  \E data \in PersistedOptions : Loaded(SelectSeq(data, InMembers))

----------------------------------------------------------------------------
(* Queries *)

(* Mutation: every member's blocks, whatever the visibility set. *)
getAllBlocks == blocks \o allMemberBlocks

(* Mutation: the local person's blocks whatever the visibility set. *)
getVisibleBlocksMine ==
  LET OwnerVisible(b) == b.userId \in visibleMembers
  IN blocks \o SelectSeq(allMemberBlocks, OwnerVisible)

getVisibleBlocks ==
  LET myVisibleBlocks == IF currentUserId \in visibleMembers THEN blocks ELSE << >>
      OwnerVisible(b) == b.userId \in visibleMembers
      otherVisibleBlocks == SelectSeq(allMemberBlocks, OwnerVisible)
  IN myVisibleBlocks \o otherVisibleBlocks

(* Mutation: the number of blocks instead of the number of owners. *)
countOverlappingBlocks(day, hour) ==
  LET visibleBlocks == getVisibleBlocks
      Covers(block) ==
        /\ block.day = day
        /\ block.status = "available"
        /\ hour >= block.startHour
        /\ hour < block.endHour
  IN Len(SelectSeq(visibleBlocks, Covers))

countOverlappingMembers(day, hour) ==
  LET visibleBlocks == getVisibleBlocks
      availableMembers ==
        { visibleBlocks[i].userId : i \in
            { j \in DOMAIN visibleBlocks :
                /\ visibleBlocks[j].day = day
                /\ visibleBlocks[j].status = "available"
                /\ hour >= visibleBlocks[j].startHour
                /\ hour < visibleBlocks[j].endHour } }
  IN Cardinality(availableMembers)

shouldShowTimeSlot(day, hour) ==
  IF ~showOnlyOverlapFree /\ ~showOnlyOverlapBusy THEN TRUE
  ELSE LET visibleBlocks == getVisibleBlocks
           AvailableAtThisHour(block) ==
             /\ block.day = day
             /\ block.status = "available"
             /\ hour >= block.startHour
             /\ hour < block.endHour
           BusyAtThisHour(block) ==
             /\ block.day = day
             /\ block.status = "busy"
             /\ hour >= block.startHour
             /\ hour < block.endHour
       IN IF showOnlyOverlapFree
            THEN Len(SelectSeq(visibleBlocks, AvailableAtThisHour)) >= 2
            ELSE Len(SelectSeq(visibleBlocks, BusyAtThisHour)) >= 2

(* Mutation: only the blocks of the creation status count. *)
hasMyBlockOfType(day, hour) ==
  \E i \in DOMAIN blocks :
    /\ blocks[i].day = day
    /\ blocks[i].status = blockType
    /\ hour >= blocks[i].startHour
    /\ hour < blocks[i].endHour

hasMyBlock(day, hour) ==
  \E i \in DOMAIN blocks :
    /\ blocks[i].day = day
    /\ hour >= blocks[i].startHour
    /\ hour < blocks[i].endHour

(* The render condition shared by the resize handles, the click-delete     *)
(* handler and the block's cursor (lines 1543-1546, 1559-1562, 1579-1583). *)
CanEditBlock(block) ==
  /\ block.userId = currentUserId
  /\ ~showOnlyOverlapFree
  /\ ~showOnlyOverlapBusy
  /\ Cardinality(visibleMembers) = 1

(* The local person's block i is drawn, and takes pointer events. *)
BlockRendered(i) ==
  /\ currentUserId \in visibleMembers
  /\ blocks[i].startHour \div TicksPerHour \in hours
  /\ ~isResizing

(* Lines 1193 and 1231-1233: the creation-status button and the form. *)
SoleVisible ==
  /\ currentUserId \in visibleMembers
  /\ Cardinality(visibleMembers) = 1

----------------------------------------------------------------------------
(* Actions *)

(* loadAllAvailability completes (lines 763-800). *)
LoadComplete ==
  /\ loadState = "pending"
  /\ loadState' = "done"
  /\ \E error \in BOOLEAN :
       IF ~error /\ Len(db) > 0
         THEN LET loadedBlocks == LoadedBlocks(db)
              IN /\ blocks' = SelectSeq(loadedBlocks, IsMine)
                 /\ allMemberBlocks' = SelectSeq(loadedBlocks, IsOther)
                 /\ nextId' = Len(loadedBlocks)
         ELSE UNCHANGED dataVars
  /\ UNCHANGED <<blockType, showTimeInput, visibleMembers, filterVars,
                 dragVars, resizeVars, db>>
  /\ UNCHANGED <<saveVars, suggestions>>

(* The "Creating:" button (lines 1196-1201). *)
ToggleBlockType ==
  /\ SoleVisible
  /\ blockType' = IF blockType = "available" THEN "busy" ELSE "available"
  /\ UNCHANGED <<dataVars, showTimeInput, visibleMembers, filterVars,
                 dragVars, resizeVars, db, loadState>>
  /\ UNCHANGED <<saveVars, suggestions>>

(* "Add Exact Time" / "Hide" (line 1216) and "Cancel" (line 1364). *)
ToggleTimeInput ==
  /\ showTimeInput' = ~showTimeInput
  /\ UNCHANGED <<dataVars, blockType, visibleMembers, filterVars,
                 dragVars, resizeVars, db, loadState>>
  /\ UNCHANGED <<saveVars, suggestions>>

(* Mutation: the member button shows that member alone. *)
toggleMemberSolo(userId) ==
  /\ userId \in members
  /\ visibleMembers' = {userId}
  /\ UNCHANGED <<dataVars, blockType, showTimeInput, filterVars,
                 dragVars, resizeVars, db, loadState>>
  /\ UNCHANGED <<saveVars, suggestions>>

toggleMember(userId) ==
  /\ userId \in members
  /\ visibleMembers' =
       IF userId \in visibleMembers
         THEN visibleMembers \ {userId}
         ELSE visibleMembers \cup {userId}
  /\ UNCHANGED <<dataVars, blockType, showTimeInput, filterVars,
                 dragVars, resizeVars, db, loadState>>
  /\ UNCHANGED <<saveVars, suggestions>>

(* Mutation: the free-overlap button leaves the busy-overlap flag alone. *)
ClickOverlapFreeOnly ==
  /\ Cardinality(visibleMembers) > 1
  /\ showOnlyOverlapFree' = ~showOnlyOverlapFree
  /\ UNCHANGED <<dataVars, blockType, showTimeInput, visibleMembers,
                 showOnlyOverlapBusy, dragVars, resizeVars, db, loadState>>
  /\ UNCHANGED <<saveVars, suggestions>>

(* The three filter buttons (lines 1396-1441). *)
ClickOverlapFree ==
  /\ Cardinality(visibleMembers) > 1
  /\ showOnlyOverlapFree' = ~showOnlyOverlapFree
  /\ showOnlyOverlapBusy' = IF ~showOnlyOverlapFree THEN FALSE ELSE showOnlyOverlapBusy
  /\ UNCHANGED <<dataVars, blockType, showTimeInput, visibleMembers,
                 dragVars, resizeVars, db, loadState>>
  /\ UNCHANGED <<saveVars, suggestions>>

ClickOverlapBusy ==
  /\ Cardinality(visibleMembers) > 1
  /\ showOnlyOverlapBusy' = ~showOnlyOverlapBusy
  /\ showOnlyOverlapFree' = IF ~showOnlyOverlapBusy THEN FALSE ELSE showOnlyOverlapFree
  /\ UNCHANGED <<dataVars, blockType, showTimeInput, visibleMembers,
                 dragVars, resizeVars, db, loadState>>
  /\ UNCHANGED <<saveVars, suggestions>>

ClearFilter ==
  /\ Cardinality(visibleMembers) > 1
  /\ showOnlyOverlapFree \/ showOnlyOverlapBusy
  /\ showOnlyOverlapFree' = FALSE
  /\ showOnlyOverlapBusy' = FALSE
  /\ UNCHANGED <<dataVars, blockType, showTimeInput, visibleMembers,
                 dragVars, resizeVars, db, loadState>>
  /\ UNCHANGED <<saveVars, suggestions>>

----------------------------------------------------------------------------
(* Exact-time form: handleAddTimeBlock (lines 666-745) *)

FieldsMissing(timeInput) ==
  \/ timeInput.day = ""
  \/ timeInput.start.hour = << >>
  \/ timeInput.start.minute = << >>
  \/ timeInput.end.hour = << >>
  \/ timeInput.end.minute = << >>

InputStart(timeInput) ==
  convertTo24Hour(timeInput.start.hour, timeInput.start.minute, timeInput.start.period)

InputEnd(timeInput) ==
  convertTo24Hour(timeInput.end.hour, timeInput.end.minute, timeInput.end.period)

(* Mutation: the validation without the lower bound of the day. *)
InputRejectedLate(timeInput) ==
  \/ FieldsMissing(timeInput)
  \/ LET startHour == InputStart(timeInput)
         endHour == InputEnd(timeInput)
     IN \/ endHour <= startHour
        \/ endHour > Hr(LastHour)

(* The three early returns of lines 667-697. *)
InputRejected(timeInput) ==
  \/ FieldsMissing(timeInput)
  \/ LET startHour == InputStart(timeInput)
         endHour == InputEnd(timeInput)
     IN \/ endHour <= startHour
        \/ startHour < Hr(FirstHour)
        \/ endHour > Hr(LastHour)

(* hasConflict of lines 700-709. *)
AddHasConflict(bs, day, startHour, endHour, type) ==
  \E i \in DOMAIN bs :
    /\ bs[i].day = day
    /\ bs[i].status # type
    /\ RangeConflict(startHour, endHour, bs[i])

(* Mutation: the id of the added block is made of its day alone. *)
AddResultDayId(timeInput) ==
  IF InputRejected(timeInput)
    THEN [accepted |-> FALSE, blocks |-> blocks, nextId |-> nextId]
    ELSE LET startHour == InputStart(timeInput)
             endHour == InputEnd(timeInput)
         IN IF AddHasConflict(blocks, timeInput.day, startHour, endHour, blockType)
              THEN [accepted |-> FALSE, blocks |-> blocks, nextId |-> nextId]
              ELSE LET newBlock ==
                         Block(<<timeInput.day>>,
                               timeInput.day, startHour, endHour,
                               blockType, currentUserId)
                   IN [accepted |-> TRUE,
                       blocks |-> mergeOverlappingBlocks(Append(blocks, newBlock)),
                       nextId |-> nextId + 1]

(* What handleAddTimeBlock leaves in blocks and nextId, and whether it     *)
(* reached the end (accepted) or took an early return.                     *)
AddResult(timeInput) ==
  IF InputRejected(timeInput)
    THEN [accepted |-> FALSE, blocks |-> blocks, nextId |-> nextId]
    ELSE LET startHour == InputStart(timeInput)
             endHour == InputEnd(timeInput)
         IN IF AddHasConflict(blocks, timeInput.day, startHour, endHour, blockType)
              THEN [accepted |-> FALSE, blocks |-> blocks, nextId |-> nextId]
              ELSE LET newBlock ==
                         Block(<<timeInput.day, startHour, nextId>>,
                               timeInput.day, startHour, endHour,
                               blockType, currentUserId)
                   IN [accepted |-> TRUE,
                       blocks |-> mergeOverlappingBlocks(Append(blocks, newBlock)),
                       nextId |-> nextId + 1]

handleAddTimeBlock(timeInput) ==
  /\ showTimeInput
  /\ SoleVisible
  /\ \E result \in {AddResult(timeInput)} :
        /\ result.accepted => nextId < MaxNextId
        /\ blocks' = result.blocks
        /\ nextId' = result.nextId
        /\ showTimeInput' = IF result.accepted THEN FALSE ELSE showTimeInput
  /\ UNCHANGED <<allMemberBlocks, blockType, visibleMembers, filterVars,
                 dragVars, resizeVars, db, loadState>>
  /\ UNCHANGED <<saveVars, suggestions>>

----------------------------------------------------------------------------
(* Cell gestures (lines 1052-1139) *)

handleMouseDown(day, hour) ==
  /\ IF isResizing
       THEN UNCHANGED dragVars
       ELSE IF currentUserId \notin visibleMembers \/ Cardinality(visibleMembers) > 1
         THEN UNCHANGED dragVars
         ELSE /\ isDragging' = TRUE
              /\ dragStartCell' = [day |-> day, hour |-> hour]
              /\ dragCurrentCell' = [day |-> day, hour |-> hour]
              /\ dragMode' = IF hasMyBlock(day, hour) THEN "remove" ELSE "add"
  /\ UNCHANGED <<dataVars, blockType, showTimeInput, visibleMembers, filterVars,
                 resizeVars, db, loadState>>
  /\ UNCHANGED <<saveVars, suggestions>>

(* Mutation: the move is taken on any day. *)
handleMouseEnterAnyDay(day, hour) ==
  /\ IF isDragging /\ dragStartCell # null
       THEN dragCurrentCell' = [day |-> day, hour |-> hour]
       ELSE UNCHANGED dragCurrentCell
  /\ UNCHANGED <<dataVars, blockType, showTimeInput, visibleMembers, filterVars,
                 isDragging, dragStartCell, dragMode, resizeVars, db, loadState>>
  /\ UNCHANGED <<saveVars, suggestions>>

handleMouseEnter(day, hour) ==
  /\ IF isDragging /\ dragStartCell # null /\ day = dragStartCell.day
       THEN dragCurrentCell' = [day |-> day, hour |-> hour]
       ELSE UNCHANGED dragCurrentCell
  /\ UNCHANGED <<dataVars, blockType, showTimeInput, visibleMembers, filterVars,
                 isDragging, dragStartCell, dragMode, resizeVars, db, loadState>>
  /\ UNCHANGED <<saveVars, suggestions>>

DragMinHour == Min(dragStartCell.hour, dragCurrentCell.hour)
DragMaxHour == Max(dragStartCell.hour, dragCurrentCell.hour)

(* hasConflict of lines 1075-1085. *)
DragHasConflict ==
  \E i \in DOMAIN blocks :
    /\ blocks[i].day = dragStartCell.day
    /\ blocks[i].status # blockType
    /\ CellRangeOverlap(blocks[i], DragMinHour, DragMaxHour)

(* filteredBlocks of lines 1094-1104. *)
DragFilteredBlocks ==
  LET Keep(block) ==
        \/ block.day # dragStartCell.day
        \/ block.status # blockType
        \/ ~CellRangeOverlap(block, DragMinHour, DragMaxHour)
  IN SelectSeq(blocks, Keep)

(* Mutation: the remove branch keeps the blocks of the other status. *)
DragRemovedBlocksSameStatus ==
  LET Keep(block) ==
        \/ block.day # dragStartCell.day
        \/ block.status # blockType
        \/ ~CellRangeOverlap(block, DragMinHour, DragMaxHour)
  IN SelectSeq(blocks, Keep)

(* The filter of the remove branch, lines 1122-1133. *)
DragRemovedBlocks ==
  LET Keep(block) ==
        \/ block.day # dragStartCell.day
        \/ ~CellRangeOverlap(block, DragMinHour, DragMaxHour)
  IN SelectSeq(blocks, Keep)

(* A drag is in progress: the guard of line 1069 passes. *)
DragActive == isDragging /\ dragStartCell # null /\ dragCurrentCell # null

(* What handleMouseUp leaves in blocks and nextId, and whether it added a  *)
(* block.                                                                  *)
MouseUpResult ==
  IF ~DragActive
    THEN [accepted |-> FALSE, blocks |-> blocks, nextId |-> nextId]
  ELSE IF dragMode = "add"
    THEN IF DragHasConflict
           THEN [accepted |-> FALSE, blocks |-> blocks, nextId |-> nextId]
           ELSE LET newBlock ==
                      Block(<<dragStartCell.day, DragMinHour, nextId>>,
                            dragStartCell.day, DragMinHour, DragMaxHour + Hr(1),
                            blockType, currentUserId)
                IN [accepted |-> TRUE,
                    blocks |-> mergeOverlappingBlocks(
                                 Append(DragFilteredBlocks, newBlock)),
                    nextId |-> nextId + 1]
    ELSE [accepted |-> FALSE, blocks |-> DragRemovedBlocks, nextId |-> nextId]

(* Mutation: a drag that is discarded on conflict keeps its session. *)
handleMouseUpKeepsConflict ==
  /\ \E result \in {MouseUpResult} :
        /\ result.accepted => nextId < MaxNextId
        /\ blocks' = result.blocks
        /\ nextId' = result.nextId
  /\ IF DragActive /\ ~(dragMode = "add" /\ DragHasConflict)
       THEN /\ isDragging' = FALSE
            /\ dragStartCell' = null
            /\ dragCurrentCell' = null
       ELSE UNCHANGED <<isDragging, dragStartCell, dragCurrentCell>>
  /\ UNCHANGED <<allMemberBlocks, blockType, showTimeInput, visibleMembers,
                 filterVars, dragMode, resizeVars, db, loadState>>
  /\ UNCHANGED <<saveVars, suggestions>>

handleMouseUp ==
  /\ \E result \in {MouseUpResult} :
        /\ result.accepted => nextId < MaxNextId
        /\ blocks' = result.blocks
        /\ nextId' = result.nextId
  /\ IF DragActive
       THEN /\ isDragging' = FALSE
            /\ dragStartCell' = null
            /\ dragCurrentCell' = null
       ELSE UNCHANGED <<isDragging, dragStartCell, dragCurrentCell>>
  /\ UNCHANGED <<allMemberBlocks, blockType, showTimeInput, visibleMembers,
                 filterVars, dragMode, resizeVars, db, loadState>>
  /\ UNCHANGED <<saveVars, suggestions>>

----------------------------------------------------------------------------
(* Edge gestures (lines 808-877) and click-delete (lines 1578-1590) *)

startResize(i, edge) ==
  /\ i \in DOMAIN blocks
  /\ BlockRendered(i)
  /\ CanEditBlock(blocks[i])
  /\ (blocks[i].endHour - blocks[i].startHour) \div TicksPerPixel >= MinHandleHeight
  /\ isResizing' = TRUE
  /\ resizingBlockId' = blocks[i].id
  /\ resizeEdge' = edge
  /\ resizeDay' = blocks[i].day
  /\ UNCHANGED <<dataVars, blockType, showTimeInput, visibleMembers, filterVars,
                 dragVars, db, loadState>>
  /\ UNCHANGED <<saveVars, suggestions>>

(* The listeners are attached while the effect's condition holds (line 809). *)
ResizeListening ==
  /\ isResizing
  /\ resizingBlockId # nullId
  /\ resizeEdge # "null"
  /\ resizeDay # "null"

(* Mutation: the conflict test on the block's interval before the move. *)
ResizeHasConflictStale(prev, b, newStartHour, newEndHour) ==
  \E j \in DOMAIN prev :
    /\ prev[j].id # b.id
    /\ prev[j].day = b.day
    /\ prev[j].status # b.status
    /\ RangeConflict(b.startHour, b.endHour, prev[j])

(* hasConflict of lines 828-839. *)
ResizeHasConflict(prev, b, newStartHour, newEndHour) ==
  \E j \in DOMAIN prev :
    /\ prev[j].id # b.id
    /\ prev[j].day = b.day
    /\ prev[j].status # b.status
    /\ RangeConflict(newStartHour, newEndHour, prev[j])

(* Mutation: the move is applied to every block of the resize day. *)
ResizedBlockAnyId(prev, b, hour) ==
  IF b.day # resizeDay THEN b
  ELSE LET newEndHour ==
             IF resizeEdge = "bottom" THEN Max(hour, b.startHour + MinSpan)
             ELSE b.endHour
           newStartHour ==
             IF resizeEdge = "bottom" THEN b.startHour
             ELSE Min(hour, b.endHour - MinSpan)
       IN IF ResizeHasConflict(prev, b, newStartHour, newEndHour) THEN b
          ELSE [b EXCEPT !.startHour = newStartHour, !.endHour = newEndHour]

(* Mutation: the moved edge follows the pointer without the minimum span. *)
ResizedBlockUnclamped(prev, b, hour) ==
  IF b.id # resizingBlockId \/ b.day # resizeDay THEN b
  ELSE LET newEndHour == IF resizeEdge = "bottom" THEN hour ELSE b.endHour
           newStartHour == IF resizeEdge = "bottom" THEN b.startHour ELSE hour
       IN IF ResizeHasConflict(prev, b, newStartHour, newEndHour) THEN b
          ELSE [b EXCEPT !.startHour = newStartHour, !.endHour = newEndHour]

(* The callback of prev.map, lines 815-844. *)
ResizedBlock(prev, b, hour) ==
  IF b.id # resizingBlockId \/ b.day # resizeDay THEN b
  ELSE LET newEndHour ==
             IF resizeEdge = "bottom" THEN Max(hour, b.startHour + MinSpan)
             ELSE b.endHour
           newStartHour ==
             IF resizeEdge = "bottom" THEN b.startHour
             ELSE Min(hour, b.endHour - MinSpan)
       IN IF ResizeHasConflict(prev, b, newStartHour, newEndHour) THEN b
          ELSE [b EXCEPT !.startHour = newStartHour, !.endHour = newEndHour]

(* The value of blocks after the setBlocks of onMouseMove. *)
ResizedBlocks(y) ==
  [i \in DOMAIN blocks |-> ResizedBlock(blocks, blocks[i], getHourFromMouseY(y))]

onMouseMove(y) ==
  /\ ResizeListening
  /\ blocks' = ResizedBlocks(y)
  /\ UNCHANGED <<allMemberBlocks, nextId, blockType, showTimeInput, visibleMembers,
                 filterVars, dragVars, resizeVars, db, loadState>>
  /\ UNCHANGED <<saveVars, suggestions>>

(* Mutation: the resize commit merges every member's blocks into blocks. *)
onMouseUpAll ==
  /\ ResizeListening
  /\ blocks' = mergeOverlappingBlocks(blocks \o allMemberBlocks)
  /\ isResizing' = FALSE
  /\ resizingBlockId' = nullId
  /\ resizeEdge' = "null"
  /\ resizeDay' = "null"
  /\ UNCHANGED <<allMemberBlocks, nextId, blockType, showTimeInput, visibleMembers,
                 filterVars, dragVars, db, loadState>>
  /\ UNCHANGED <<saveVars, suggestions>>

(* Mutation: the resize commit clears the session without merging. *)
onMouseUpNoMerge ==
  /\ ResizeListening
  /\ isResizing' = FALSE
  /\ resizingBlockId' = nullId
  /\ resizeEdge' = "null"
  /\ resizeDay' = "null"
  /\ UNCHANGED <<blocks, allMemberBlocks, nextId, blockType, showTimeInput,
                 visibleMembers, filterVars, dragVars, db, loadState>>
  /\ UNCHANGED <<saveVars, suggestions>>

onMouseUp ==
  /\ ResizeListening
  /\ blocks' = mergeOverlappingBlocks(blocks)
  /\ isResizing' = FALSE
  /\ resizingBlockId' = nullId
  /\ resizeEdge' = "null"
  /\ resizeDay' = "null"
  /\ UNCHANGED <<allMemberBlocks, nextId, blockType, showTimeInput, visibleMembers,
                 filterVars, dragVars, db, loadState>>
  /\ UNCHANGED <<saveVars, suggestions>>

ClickDelete(i) ==
  /\ i \in DOMAIN blocks
  /\ BlockRendered(i)
  /\ CanEditBlock(blocks[i])
  /\ LET Keep(b) == b.id # blocks[i].id
     IN blocks' = SelectSeq(blocks, Keep)
  /\ UNCHANGED <<allMemberBlocks, nextId, blockType, showTimeInput, visibleMembers,
                 filterVars, dragVars, resizeVars, db, loadState>>
  /\ UNCHANGED <<saveVars, suggestions>>

----------------------------------------------------------------------------
(* Saving: handleSave (lines 980-1029), one run per session *)

SavedMessage == "Schedule saved successfully!"
ErrorMessage == "Error saving schedule. Please try again."

uiVars ==
  <<blockType, showTimeInput, visibleMembers, filterVars, dragVars, resizeVars>>

(* The blocks of the second session, which it saves as they are. *)
PeerBlocks ==
  <<Block(<<days[1], Hr(FirstHour), 0>>, days[1], Hr(FirstHour), Hr(FirstHour + 1),
          "available", currentUserId)>>

SessionBlocks(s) == IF s = "local" THEN blocks ELSE PeerBlocks

(* The rows an insert adds; the table numbers them. *)
InsertedRows(s, records) ==
  [i \in DOMAIN records |->
     Record((IF s = "local" THEN 100 ELSE 200) + i, records[i].user_id,
            records[i].day_of_week, records[i].start_time, records[i].end_time,
            records[i].status)]

(* Mutation: a failed save puts the persisted rows back into blocks. *)
SaveFailedRollback(s) ==
  /\ saving' = [saving EXCEPT ![s] = FALSE]
  /\ saveMessage' = [saveMessage EXCEPT ![s] = ErrorMessage]
  /\ savePc' = [savePc EXCEPT ![s] = "idle"]
  /\ blocks' = IF s = "local" THEN LoadedBlocks(OwnRows(db)) ELSE blocks
  /\ UNCHANGED <<allMemberBlocks, nextId, messageTimer, saveRecords, persistedBefore>>

(* Mutation: a failed save reports the error and leaves the flag set. *)
SaveFailedKeepsSaving(s) ==
  /\ saveMessage' = [saveMessage EXCEPT ![s] = ErrorMessage]
  /\ savePc' = [savePc EXCEPT ![s] = "idle"]
  /\ UNCHANGED <<dataVars, saving, messageTimer, saveRecords, persistedBefore>>

(* The catch and finally blocks, lines 1023-1028. *)
SaveFailed(s) ==
  /\ saving' = [saving EXCEPT ![s] = FALSE]
  /\ saveMessage' = [saveMessage EXCEPT ![s] = ErrorMessage]
  /\ savePc' = [savePc EXCEPT ![s] = "idle"]
  /\ UNCHANGED <<dataVars, messageTimer, saveRecords, persistedBefore>>

(* Lines 1021-1022 and the finally block. *)
SaveSucceeded(s) ==
  /\ saving' = [saving EXCEPT ![s] = FALSE]
  /\ saveMessage' = [saveMessage EXCEPT ![s] = SavedMessage]
  /\ messageTimer' = [messageTimer EXCEPT ![s] = TRUE]
  /\ savePc' = [savePc EXCEPT ![s] = "idle"]
  /\ UNCHANGED <<dataVars, saveRecords, persistedBefore>>

(* The click on "Save Schedule" (disabled while saving): the handler runs  *)
(* up to the await of the delete request.  The records are those of the    *)
(* blocks of the render in which the click was made.  persistedBefore      *)
(* keeps the person's rows at the time of the click for the properties; no *)
(* action reads it.                                                        *)
handleSave(s) ==
  /\ s \in Sessions
  /\ ~saving[s]
  /\ saving' = [saving EXCEPT ![s] = TRUE]
  /\ saveMessage' = [saveMessage EXCEPT ![s] = ""]
  /\ savePc' = [savePc EXCEPT ![s] = "delete"]
  /\ saveRecords' = [saveRecords EXCEPT ![s] = availabilityRecords(SessionBlocks(s))]
  /\ persistedBefore' = [persistedBefore EXCEPT ![s] = OwnRows(db)]
  /\ UNCHANGED <<dataVars, uiVars, db, loadState, messageTimer, suggestions>>

(* The delete request returns (lines 985-991), and the handler runs up to  *)
(* the await of the insert request or to its end.                          *)
DeleteReturns(s, error) ==
  /\ savePc[s] = "delete"
  /\ IF error
       THEN /\ SaveFailed(s)
            /\ UNCHANGED db
       ELSE /\ db' = OtherRows(db)
            /\ IF Len(saveRecords[s]) > 0
                 THEN /\ savePc' = [savePc EXCEPT ![s] = "insert"]
                      /\ UNCHANGED <<dataVars, saving, saveMessage, messageTimer,
                                     saveRecords, persistedBefore>>
                 ELSE SaveSucceeded(s)
  /\ UNCHANGED <<uiVars, loadState, suggestions>>

(* The insert request returns (lines 1014-1018). *)
InsertReturns(s, error) ==
  /\ savePc[s] = "insert"
  /\ IF error
       THEN /\ SaveFailed(s)
            /\ UNCHANGED db
       ELSE /\ db' = db \o InsertedRows(s, saveRecords[s])
            /\ SaveSucceeded(s)
  /\ UNCHANGED <<uiVars, loadState, suggestions>>

(* The timer of line 1022 fires; another one may still be pending. *)
ClearSaveMessage(s) ==
  /\ messageTimer[s]
  /\ saveMessage' = [saveMessage EXCEPT ![s] = ""]
  /\ \E pending \in BOOLEAN : messageTimer' = [messageTimer EXCEPT ![s] = pending]
  /\ UNCHANGED <<dataVars, uiVars, db, loadState, saving, savePc, saveRecords,
                 persistedBefore, suggestions>>

(* The page is opened again: the component starts from its initial state   *)
(* and the load runs again (effect of lines 762-803); a save of the old    *)
(* page that is still waiting is abandoned.                                *)
Remount ==
  /\ blocks' = << >>
  /\ allMemberBlocks' = << >>
  /\ nextId' = 0
  /\ blockType' = "available"
  /\ showTimeInput' = FALSE
  /\ visibleMembers' = {currentUserId}
  /\ showOnlyOverlapFree' = FALSE
  /\ showOnlyOverlapBusy' = FALSE
  /\ isDragging' = FALSE
  /\ dragStartCell' = null
  /\ dragCurrentCell' = null
  /\ dragMode' = "add"
  /\ isResizing' = FALSE
  /\ resizingBlockId' = nullId
  /\ resizeEdge' = "null"
  /\ resizeDay' = "null"
  /\ loadState' = "pending"
  /\ saving' = [saving EXCEPT !["local"] = FALSE]
  /\ saveMessage' = [saveMessage EXCEPT !["local"] = ""]
  /\ messageTimer' = [messageTimer EXCEPT !["local"] = FALSE]
  /\ savePc' = [savePc EXCEPT !["local"] = "idle"]
  /\ UNCHANGED <<db, saveRecords, persistedBefore, suggestions>>

----------------------------------------------------------------------------
(* Specifications *)

(* The exact-time form. *)
NextForm ==
  \/ ToggleTimeInput
  \/ \E timeInput \in TimeInputs : handleAddTimeBlock(timeInput)

(* The cell gestures and click-delete. *)
NextDrag ==
  \/ ToggleBlockType
  \/ \E day \in CellDays, hour \in CellHours : handleMouseDown(day, hour)
  \/ \E day \in CellDays, hour \in CellHours : handleMouseEnter(day, hour)
  \/ handleMouseUp
  \/ \E i \in 1..Len(blocks) : ClickDelete(i)

(* The edge gestures. *)
NextResize ==
  \/ \E i \in 1..Len(blocks), edge \in {"top", "bottom"} : startResize(i, edge)
  \/ \E y \in MouseYs : onMouseMove(y)
  \/ onMouseUp

(* The member toggles and the overlap filter. *)
NextView ==
  \/ \E userId \in members : toggleMember(userId)
  \/ ClickOverlapFree
  \/ ClickOverlapBusy
  \/ ClearFilter

(* The steps of one session's save. *)
SaveSteps(s) ==
  \/ handleSave(s)
  \/ \E error \in BOOLEAN : DeleteReturns(s, error)
  \/ \E error \in BOOLEAN : InsertReturns(s, error)

(* The save requests of the two sessions and the reopening of the page. *)
NextSave ==
  \/ \E s \in Sessions : SaveSteps(s)
  \/ \E s \in Sessions : ClearSaveMessage(s)
  \/ Remount

Next == LoadComplete \/ NextForm \/ NextDrag \/ NextResize \/ NextView \/ NextSave

(* The whole component. *)
Spec == Init /\ [][Next]_vars

(* Additive and removing edits from the empty calendar. *)
SpecAdd == InitEmpty /\ [][NextForm \/ NextDrag]_vars

(* All edits of the local person's blocks, after the load. *)
SpecEdit == InitLoaded /\ [][NextForm \/ NextDrag \/ NextResize]_vars

(* The load, the member toggles and the overlap filter, with the cell      *)
(* gestures.                                                               *)
SpecView == Init /\ [][LoadComplete \/ NextView \/ NextDrag]_vars

(* Saving from this component, reopening the page, and click-delete. *)
SpecSave ==
  InitLoaded
    /\ [][\/ SaveSteps("local")
          \/ ClearSaveMessage("local")
          \/ Remount
          \/ LoadComplete
          \/ \E i \in 1..Len(blocks) : ClickDelete(i)]_vars

(* Saving and reopening the page with one block whose bounds are whole     *)
(* minutes: every start from 8:00 to 21:59, on a day that changes with the  *)
(* minute, with the end one minute later or at 22:00.                       *)
WholeMinutes ==
  {Hr(FirstHour) + n * TicksPerMinute :
     n \in 0 .. ((LastHour - FirstHour) * MinutesPerHour - 1)}

RoundTripBlock(start, end) ==
  LET day == days[((start \div TicksPerMinute) % Len(days)) + 1]
  IN Block(<<day, start, 0>>, day, start, end, "available", currentUserId)

RoundTripInputs ==
  UNION { {RoundTripBlock(start, start + TicksPerMinute),
           RoundTripBlock(start, Hr(LastHour))} : start \in WholeMinutes }

InitRoundTrip ==
  /\ blocks \in {<<b>> : b \in RoundTripInputs}
  /\ allMemberBlocks = << >>
  /\ nextId = 1
  /\ blockType = "available"
  /\ showTimeInput = FALSE
  /\ visibleMembers = {currentUserId}
  /\ showOnlyOverlapFree = FALSE
  /\ showOnlyOverlapBusy = FALSE
  /\ isDragging = FALSE
  /\ dragStartCell = null
  /\ dragCurrentCell = null
  /\ dragMode = "add"
  /\ isResizing = FALSE
  /\ resizingBlockId = nullId
  /\ resizeEdge = "null"
  /\ resizeDay = "null"
  /\ db = << >>
  /\ loadState = "done"
  /\ SaveIdle
  /\ suggestions = NoSuggestions

SpecRoundTrip ==
  InitRoundTrip /\ [][SaveSteps("local") \/ Remount \/ LoadComplete]_vars

(* The suggestion engine applied to the intervals of a group of four      *)
(* owners, each with one of the weekly schedules.  The group size and topN *)
(* are those the caller was set up with.                                   *)
Suggest ==
  /\ suggestions' =
       Suggested(suggestions.groupSize, suggestions.topN, TRUE,
                 suggestMeetingTimes(blocks \o allMemberBlocks,
                                     suggestions.groupSize, suggestions.topN))
  /\ UNCHANGED <<dataVars, uiVars, db, loadState, saveVars>>

InitSuggest ==
  /\ \E k \in [1 .. Len(UserIds) -> Schedules] :
       /\ blocks = MemberBlocks(1, k[1])
       /\ allMemberBlocks =
            MemberBlocks(2, k[2]) \o MemberBlocks(3, k[3]) \o MemberBlocks(4, k[4])
  /\ nextId = 1
  /\ blockType = "available"
  /\ showTimeInput = FALSE
  /\ visibleMembers = {currentUserId}
  /\ showOnlyOverlapFree = FALSE
  /\ showOnlyOverlapBusy = FALSE
  /\ isDragging = FALSE
  /\ dragStartCell = null
  /\ dragCurrentCell = null
  /\ dragMode = "add"
  /\ isResizing = FALSE
  /\ resizingBlockId = nullId
  /\ resizeEdge = "null"
  /\ resizeDay = "null"
  /\ db = << >>
  /\ loadState = "done"
  /\ SaveIdle
  /\ \E groupSize \in GroupSizes, topN \in TopNs :
       suggestions = Suggested(groupSize, topN, FALSE, << >>)

SpecSuggest == InitSuggest /\ [][Suggest]_vars

(* Saving while the edges of two blocks of one day and status are moved:  *)
(* the load has returned [Monday 9:00-9:30 Available] and                  *)
(* [Monday 10:00-11:00 Available] of the local person.                     *)
InitTwoBlocks ==
  Loaded(<<Record(51, UserIds[1], 1, T0900, T0930, "available"),
           Record(52, UserIds[1], 1, T1000, T1100, "available")>>)

SpecSaveResize ==
  InitTwoBlocks
    /\ [][NextResize \/ SaveSteps("local")]_vars

(* The cell gestures over the cells of the first NumDays days, from the    *)
(* empty calendar.                                                         *)
SpecDrag ==
  InitEmpty
    /\ [][\/ ToggleBlockType
          \/ \E day \in InputDays, hour \in CellHours : handleMouseDown(day, hour)
          \/ \E day \in InputDays, hour \in CellHours : handleMouseEnter(day, hour)
          \/ handleMouseUp]_vars

(* The cell gestures together with the saves of the local session.  A     *)
(* pressed button is released, or the pointer leaves the grid, after       *)
(* finitely many moves (grid onMouseUp and onMouseLeave, lines 1460-1461), *)
(* hence the weak fairness of handleMouseUp.  A drag starts only while it  *)
(* can still be given an id below MaxNextId.                               *)
NextDragSave ==
  \/ ToggleBlockType
  \/ \E day \in InputDays, hour \in CellHours :
       nextId < MaxNextId /\ handleMouseDown(day, hour)
  \/ \E day \in InputDays, hour \in CellHours : handleMouseEnter(day, hour)
  \/ handleMouseUp
  \/ SaveSteps("local")

SpecDragFair == InitEmpty /\ [][NextDragSave]_vars /\ WF_vars(handleMouseUp)

(* The saves of this component between cell gestures.  The persistence    *)
(* calls awaited by handleSave (lines 985-989 and 1014-1016) return, with  *)
(* or without an error, hence the weak fairness of the two completions.    *)
SpecSaveFair ==
  InitLoaded
    /\ [][NextDrag \/ SaveSteps("local") \/ ClearSaveMessage("local")]_vars
    /\ WF_vars(\E error \in BOOLEAN : DeleteReturns("local", error))
    /\ WF_vars(\E error \in BOOLEAN : InsertReturns("local", error))

(* The saves of the two sessions for the same person and group. *)
SpecRace == InitLoaded /\ [][\E s \in Sessions : SaveSteps(s)]_vars

----------------------------------------------------------------------------
(* The merge on its own: blocks starts as any array of at most MergeMaxLen *)
(* blocks of the local person and the step replaces it by its merge, as     *)
(* the setBlocks(mergeOverlappingBlocks(...)) calls do.                     *)

MergeBounds == {Hr(h) : h \in FirstHour .. Min(FirstHour + MergeHours, LastHour)}

MergeShapes ==
  { Block(nullId, day, startHour, endHour, status, currentUserId) :
      day \in InputDays, status \in Statuses,
      startHour \in MergeBounds, endHour \in MergeBounds }

MergeInputs ==
  UNION { { [i \in 1..n |->
              [f[i] EXCEPT !.id = <<f[i].day, f[i].startHour, i - 1>>]] :
            f \in [1..n -> {b \in MergeShapes : b.startHour < b.endHour}] } :
          n \in 0..MergeMaxLen }

InitMerge ==
  /\ blocks \in MergeInputs
  /\ allMemberBlocks = << >>
  /\ nextId = Len(blocks)
  /\ blockType = "available"
  /\ showTimeInput = FALSE
  /\ visibleMembers = {currentUserId}
  /\ showOnlyOverlapFree = FALSE
  /\ showOnlyOverlapBusy = FALSE
  /\ isDragging = FALSE
  /\ dragStartCell = null
  /\ dragCurrentCell = null
  /\ dragMode = "add"
  /\ isResizing = FALSE
  /\ resizingBlockId = nullId
  /\ resizeEdge = "null"
  /\ resizeDay = "null"
  /\ db = << >>
  /\ loadState = "done"
  /\ SaveIdle
  /\ suggestions = NoSuggestions

MergeStep ==
  /\ blocks' = mergeOverlappingBlocks(blocks)
  /\ UNCHANGED <<allMemberBlocks, nextId, blockType, showTimeInput, visibleMembers,
                 filterVars, dragVars, resizeVars, db, loadState>>
  /\ UNCHANGED <<saveVars, suggestions>>

SpecMerge == InitMerge /\ [][MergeStep]_vars

----------------------------------------------------------------------------
(* Properties of the merge *)

(* C3: mergeOverlappingBlocks is idempotent: merging the merge of any      *)
(* array of blocks gives the same set of (day, status, start, end)         *)
(* intervals as merging it once.                                           *)
MergeIdempotent ==
  Intervals(mergeOverlappingBlocks(mergeOverlappingBlocks(blocks)))
    = Intervals(mergeOverlappingBlocks(blocks))

(* The merge has joined an array of three blocks into one block that is    *)
(* longer than a single grid hour.                                         *)
MergeJoinedThree ==
  /\ nextId = 3
  /\ Len(blocks) = 1
  /\ blocks[1].endHour - blocks[1].startHour > Hr(1)

(* C4: the output of mergeOverlappingBlocks is canonical: two distinct     *)
(* output blocks of the same day and status are separated by a strict gap, *)
(* so that ordered by start each ends before the next starts.              *)
MergeCanonical ==
  LET merged == mergeOverlappingBlocks(blocks)
  IN \A i, j \in DOMAIN merged :
       (/\ i # j
        /\ merged[i].day = merged[j].day
        /\ merged[i].status = merged[j].status
        /\ merged[i].startHour <= merged[j].startHour)
         => merged[i].endHour < merged[j].startHour

(* The merge has joined two of three blocks of one day and status and kept *)
(* the third apart.                                                        *)
MergeKeptGap ==
  /\ nextId = 3
  /\ Len(blocks) = 2
  /\ blocks[1].day = blocks[2].day
  /\ blocks[1].status = blocks[2].status
  /\ blocks = mergeOverlappingBlocks(blocks)

----------------------------------------------------------------------------
(* Properties of the additive edits *)

(* C1: no Available block and Busy block of the local person on the same   *)
(* day overlap (a.start < b.end and b.start < a.end), after any sequence   *)
(* of drag commits, exact-time adds, resize moves and resize commits.      *)
MutualExclusion ==
  \A i, j \in DOMAIN blocks :
    (/\ blocks[i].day = blocks[j].day
     /\ blocks[i].status = "available"
     /\ blocks[j].status = "busy")
      => ~(/\ blocks[i].startHour < blocks[j].endHour
           /\ blocks[j].startHour < blocks[i].endHour)

(* A resize move has put the top edge of a block on 8.0 while the block    *)
(* touches a block of the other status on the same day.                    *)
ResizedNextToOpposite ==
  /\ isResizing
  /\ \E i, j \in DOMAIN blocks :
       /\ blocks[i].id = resizingBlockId
       /\ blocks[i].day = blocks[j].day
       /\ blocks[i].status # blocks[j].status
       /\ blocks[i].endHour = blocks[j].startHour
       /\ blocks[i].startHour = Hr(FirstHour)

(* C2: an additive edit whose candidate overlaps a block of the other      *)
(* status on the same day leaves blocks as it is: the exact-time add for   *)
(* every form input that passes validation, and the commit of an add-mode  *)
(* drag.                                                                   *)
ConflictRejectionIsNoOp ==
  /\ \A timeInput \in TimeInputs :
       (/\ ~InputRejected(timeInput)
        /\ \E i \in DOMAIN blocks :
             /\ blocks[i].day = timeInput.day
             /\ blocks[i].status # blockType
             /\ InputStart(timeInput) < blocks[i].endHour
             /\ blocks[i].startHour < InputEnd(timeInput))
         => /\ AddResult(timeInput).blocks = blocks
            /\ ~AddResult(timeInput).accepted
  /\ (/\ DragActive
      /\ dragMode = "add"
      /\ \E i \in DOMAIN blocks :
           /\ blocks[i].day = dragStartCell.day
           /\ blocks[i].status # blockType
           /\ DragMinHour < blocks[i].endHour
           /\ blocks[i].startHour < DragMaxHour + Hr(1))
       => /\ MouseUpResult.blocks = blocks
          /\ ~MouseUpResult.accepted

(* Scenario B with the grid rows of the model: the local person owns one   *)
(* Available block and an add-mode drag with creation status Busy covers   *)
(* the last hour of it and the hour after it.                              *)
ConflictingDragPending ==
  /\ DragActive
  /\ dragMode = "add"
  /\ blockType = "busy"
  /\ Len(blocks) = 1
  /\ blocks[1].status = "available"
  /\ blocks[1].day = dragStartCell.day
  /\ DragMinHour = blocks[1].endHour - Hr(1)
  /\ DragMaxHour = blocks[1].endHour

(* C5 (Scenario A): when the local person owns exactly [Mon 9-11           *)
(* Available] and commits an add-mode drag over the rows 10 and 11 with    *)
(* creation status Available, blocks becomes the single interval           *)
(* [Mon 9-12 Available].                                                   *)
ScenarioAMerges ==
  (/\ Intervals(blocks) = {<<"Monday", "available", Hr(9), Hr(11)>>}
   /\ Len(blocks) = 1
   /\ blockType = "available"
   /\ DragActive
   /\ dragMode = "add"
   /\ dragStartCell.day = "Monday"
   /\ DragMinHour = Hr(10)
   /\ DragMaxHour = Hr(11))
    => Intervals(MouseUpResult.blocks) = {<<"Monday", "available", Hr(9), Hr(12)>>}

(* C10: the exact-time add leaves blocks and nextId unchanged when the day *)
(* or one of the four numeric fields is missing, or end <= start, or       *)
(* start < 8.0, or end > 22.0; otherwise it adds the block unless the      *)
(* candidate overlaps a block of the other status on the same day.         *)
ExactAddValidation ==
  \A timeInput \in TimeInputs :
    LET startHour == InputStart(timeInput)
        endHour == InputEnd(timeInput)
        result == AddResult(timeInput)
        missing ==
          \/ timeInput.day = ""
          \/ << >> \in {timeInput.start.hour, timeInput.start.minute,
                        timeInput.end.hour, timeInput.end.minute}
        conflict ==
          \E i \in DOMAIN blocks :
            /\ blocks[i].day = timeInput.day
            /\ blocks[i].status # blockType
            /\ startHour < blocks[i].endHour
            /\ blocks[i].startHour < endHour
    IN IF \/ missing
          \/ endHour <= startHour
          \/ startHour < Hr(8)
          \/ endHour > Hr(22)
         THEN /\ ~result.accepted
              /\ result.blocks = blocks
              /\ result.nextId = nextId
         ELSE ~conflict =>
                /\ result.accepted
                /\ result.nextId = nextId + 1
                /\ \E i \in DOMAIN result.blocks :
                     /\ result.blocks[i].day = timeInput.day
                     /\ result.blocks[i].status = blockType
                     /\ result.blocks[i].startHour <= startHour
                     /\ result.blocks[i].endHour >= endHour

(* The form has added 8:00 AM - 8:05 AM and closed, and is open again with *)
(* the added block in place.                                               *)
ExactAddAccepted ==
  /\ showTimeInput
  /\ nextId = 1
  /\ \E i \in DOMAIN blocks :
       /\ blocks[i].startHour = Hr(8)
       /\ blocks[i].endHour = Hr(8) + 5 * TicksPerMinute

----------------------------------------------------------------------------
(* Properties of the resize gesture and of the bounds of the day *)

(* C6: a resize move changes at most the block being resized, and a move   *)
(* that changes it never leaves it overlapping a block of the other status *)
(* on the same day: a move whose interval would overlap one leaves blocks  *)
(* exactly as it was.                                                      *)
ResizeFreezesOnConflict ==
  ResizeListening =>
    \A y \in MouseYs :
      LET after == ResizedBlocks(y)
      IN \A i \in DOMAIN blocks :
           /\ blocks[i].id # resizingBlockId => after[i] = blocks[i]
           /\ after[i] # blocks[i] =>
                \A j \in DOMAIN after :
                  (/\ j # i
                   /\ after[j].day = after[i].day
                   /\ after[j].status # after[i].status)
                    => ~(/\ after[i].startHour < after[j].endHour
                         /\ after[j].startHour < after[i].endHour)

(* The bottom edge of the resized block has been moved up to the minimum   *)
(* span, a block of the other status lies below it on the same day, and a  *)
(* pointer height beyond that block leaves blocks unchanged.               *)
ResizeFrozen ==
  /\ ResizeListening
  /\ resizeEdge = "bottom"
  /\ \E i, j \in DOMAIN blocks, y \in MouseYs :
       /\ blocks[i].id = resizingBlockId
       /\ blocks[i].endHour = blocks[i].startHour + MinSpan
       /\ blocks[j].day = blocks[i].day
       /\ blocks[j].status # blocks[i].status
       /\ blocks[j].startHour >= blocks[i].endHour
       /\ getHourFromMouseY(y) > blocks[j].startHour
       /\ ResizedBlocks(y) = blocks

(* C9: every block of the local person satisfies                           *)
(* 8.0 <= start < end <= 22.0 after any sequence of drag adds, drag        *)
(* removes, exact-time adds, resize moves, resize commits and              *)
(* click-deletes.                                                          *)
WithinDay ==
  \A i \in DOMAIN blocks :
    /\ Hr(8) <= blocks[i].startHour
    /\ blocks[i].startHour < blocks[i].endHour
    /\ blocks[i].endHour <= Hr(22)

(* Resize moves above and below the grid have put the two edges of one     *)
(* block on 8.0 and on 22.0.                                               *)
ResizedToBothEnds ==
  \E i \in DOMAIN blocks :
    /\ blocks[i].startHour = Hr(8)
    /\ blocks[i].endHour = Hr(22)

----------------------------------------------------------------------------
(* Properties of the visibility set *)

(* C7: for every day and every row of the grid, countOverlappingMembers is *)
(* between 0 and the number of visible members.                            *)
OverlapCountBounded ==
  \A d \in DOMAIN days, hour \in hours :
    countOverlappingMembers(days[d], Hr(hour)) \in 0 .. Cardinality(visibleMembers)

(* Several members are visible and all of them are available in one row.   *)
AllVisibleAvailable ==
  /\ Cardinality(visibleMembers) >= 2
  /\ \E d \in DOMAIN days, hour \in hours :
       countOverlappingMembers(days[d], Hr(hour)) = Cardinality(visibleMembers)

(* C8: every step that changes the local person's blocks (the load apart)  *)
(* is taken in a state where the visibility set is exactly the local       *)
(* person.                                                                 *)
EditsOnlyWhenSoleVisible ==
  [][(blocks' # blocks /\ loadState' = loadState)
       => visibleMembers = {currentUserId}]_vars

(* C12: countOverlappingMembers(day, hour) is the number of distinct       *)
(* visible owners with an Available block on that day with                 *)
(* start <= hour < end; Busy blocks and blocks with end = hour do not      *)
(* count.                                                                  *)
OverlapCountIsOwners ==
  \A d \in DOMAIN days, hour \in hours :
    countOverlappingMembers(days[d], Hr(hour)) =
      Cardinality(
        { u \in visibleMembers :
            \E b \in {blocks[i] : i \in DOMAIN blocks}
                       \cup {allMemberBlocks[i] : i \in DOMAIN allMemberBlocks} :
              /\ b.userId = u
              /\ b.day = days[d]
              /\ b.status = "available"
              /\ b.startHour <= Hr(hour)
              /\ Hr(hour) < b.endHour })

(* One visible owner has two Available blocks over a row, and the count of *)
(* the row is 1.                                                           *)
OneOwnerCountedOnce ==
  \E d \in DOMAIN days, hour \in hours :
    /\ countOverlappingMembers(days[d], Hr(hour)) = 1
    /\ \E i, j \in DOMAIN allMemberBlocks :
         /\ i # j
         /\ allMemberBlocks[i].userId = allMemberBlocks[j].userId
         /\ allMemberBlocks[i].userId \in visibleMembers
         /\ \A k \in {i, j} :
              /\ allMemberBlocks[k].day = days[d]
              /\ allMemberBlocks[k].status = "available"
              /\ allMemberBlocks[k].startHour <= Hr(hour)
              /\ Hr(hour) < allMemberBlocks[k].endHour

(* C11: with the free-overlap filter on, shouldShowTimeSlot(day, hour) is  *)
(* true iff at least two distinct visible owners have an Available block   *)
(* with start <= hour < end on the day; with the busy-overlap filter on,   *)
(* iff at least two have such a Busy block; with no filter it is true.     *)
OverlapFilterByOwners ==
  \A d \in DOMAIN days, hour \in hours :
    LET visibleBlocks == getVisibleBlocks
        owners(status) ==
          { visibleBlocks[i].userId : i \in
              { j \in DOMAIN visibleBlocks :
                  /\ visibleBlocks[j].day = days[d]
                  /\ visibleBlocks[j].status = status
                  /\ visibleBlocks[j].startHour <= Hr(hour)
                  /\ Hr(hour) < visibleBlocks[j].endHour } }
    IN shouldShowTimeSlot(days[d], Hr(hour)) =
         IF showOnlyOverlapFree THEN Cardinality(owners("available")) >= 2
         ELSE IF showOnlyOverlapBusy THEN Cardinality(owners("busy")) >= 2
         ELSE TRUE

(* C13: getVisibleBlocks holds exactly the blocks of the state whose owner *)
(* is in the visibility set: the local person's blocks when the local      *)
(* person is visible and the other members' blocks of visible owners.      *)
VisibleBlocksExact ==
  LET visibleBlocks == getVisibleBlocks
  IN /\ {visibleBlocks[i] : i \in DOMAIN visibleBlocks} =
          { b \in {blocks[i] : i \in DOMAIN blocks}
                    \cup {allMemberBlocks[i] : i \in DOMAIN allMemberBlocks} :
              b.userId \in visibleMembers }
     /\ \A i \in DOMAIN blocks : blocks[i].userId = currentUserId
     /\ \A i \in DOMAIN allMemberBlocks : allMemberBlocks[i].userId # currentUserId

(* The local person is hidden and owns a block, one other member is        *)
(* visible and another one with blocks is hidden.                          *)
LocalHiddenOtherVisible ==
  /\ currentUserId \notin visibleMembers
  /\ Len(blocks) > 0
  /\ Len(getVisibleBlocks) > 0
  /\ Len(getVisibleBlocks) < Len(allMemberBlocks)

----------------------------------------------------------------------------
(* Properties of saving *)

(* C14: the step in which a save fails (delete error or insert error)      *)
(* leaves the local person's blocks as they are.                           *)
FailedSaveKeepsBlocks ==
  [][(/\ savePc["local"] # "idle"
      /\ savePc'["local"] = "idle"
      /\ saveMessage'["local"] = ErrorMessage)
       => blocks' = blocks]_vars

(* The insert of a save has failed after its delete: the local person      *)
(* still has the block and the table has no row of it.                     *)
InsertFailedBlocksKept ==
  /\ saveMessage["local"] = ErrorMessage
  /\ ~saving["local"]
  /\ Len(blocks) > 0
  /\ Len(saveRecords["local"]) > 0
  /\ Len(OwnRows(db)) = 0

(* C15: once the saves of the two sessions have both completed without     *)
(* error, the rows of the person in the table are exactly the records of   *)
(* one of the two saves.                                                   *)
LastWriteWins ==
  (\A s \in Sessions :
     /\ savePc[s] = "idle"
     /\ saveMessage[s] = SavedMessage)
    => \E s \in Sessions :
         /\ RowContent(OwnRows(db)) = RowContent(saveRecords[s])
         /\ Len(OwnRows(db)) = Len(saveRecords[s])

(* C16: when a save attempt ends, with or without error, the rows of the   *)
(* person in the table are either the rows that were there when the save   *)
(* was requested or the records of the save.                               *)
SaveReplacesAtomically ==
  (/\ savePc["local"] = "idle"
   /\ saveMessage["local"] \in {SavedMessage, ErrorMessage})
    => \/ RowContent(OwnRows(db)) = RowContent(persistedBefore["local"])
       \/ RowContent(OwnRows(db)) = RowContent(saveRecords["local"])

(* C20: the clock strings a save writes for a block whose bounds are whole *)
(* minutes in [8.0, 22.0] parse back to the same start and end on the same *)
(* day, the minute field written is in 0..59, and the day name to day      *)
(* index conversion round-trips for the 7 days.                            *)
SerializationRoundTrips ==
  [][ /\ (/\ savePc["local"] = "idle"
          /\ savePc'["local"] = "delete")
        => LET rows == InsertedRows("local", saveRecords'["local"])
           IN /\ Intervals(LoadedBlocks(rows)) = Intervals(blocks)
              /\ \A i \in DOMAIN rows :
                   /\ parseInt(split(rows[i].start_time, ":")[2]).val
                        \in 0 .. (MinutesPerHour - 1)
                   /\ parseInt(split(rows[i].end_time, ":")[2]).val
                        \in 0 .. (MinutesPerHour - 1)
      /\ \A d \in DOMAIN days : indexToDay(dayToIndex(days[d])) = days[d]
    ]_vars

(* A block from 21:59 to 22:00 has been saved, loaded after the page was   *)
(* reopened, and saved again.                                              *)
LastMinuteSavedTwice ==
  /\ savePc["local"] = "idle"
  /\ saveMessage["local"] = SavedMessage
  /\ Len(blocks) = 1
  /\ blocks[1].id[1] = "loaded"
  /\ blocks[1].startHour = Hr(LastHour) - TicksPerMinute
  /\ blocks[1].endHour = Hr(LastHour)

(* The owners with an Available interval covering hour on day. *)
OwnersFreeAt(day, hour) ==
  LET all == blocks \o allMemberBlocks
  IN { all[i].userId :
         i \in { j \in DOMAIN all : /\ all[j].day = day
                                    /\ all[j].status = "available"
                                    /\ all[j].startHour <= hour
                                    /\ hour < all[j].endHour } }

SampleHours == {Hr(FirstHour) + k * SampleStep : k \in 0 .. (SamplesPerDay - 1)}

(* The group of Scenario C: four members, three of whom have              *)
(* [Tuesday 14:00-15:00 Available]; those three are the ones free during  *)
(* that hour, and at every other sample of the week at most two members    *)
(* are free.                                                               *)
ScenarioCGroup ==
  LET all == blocks \o allMemberBlocks
      holders == { all[i].userId :
                     i \in { j \in DOMAIN all : /\ all[j].day = days[3]
                                                /\ all[j].status = "available"
                                                /\ all[j].startHour = Hr(14)
                                                /\ all[j].endHour = Hr(15) } }
  IN /\ suggestions.groupSize = 4
     /\ Cardinality(holders) = 3
     /\ \A d \in DOMAIN days : \A hour \in SampleHours :
          IF d = 3 /\ Hr(14) <= hour /\ hour < Hr(15)
          THEN OwnersFreeAt(days[d], hour) = holders
          ELSE Cardinality(OwnersFreeAt(days[d], hour)) <= 2

ScenarioCSegment == MeetingSuggestion(days[3], Hr(14), Hr(15), 3)

(* C17: Scenario C: for a group of 4 in which 3 members have              *)
(* [Tuesday 14:00-15:00 Available], the list returned by                   *)
(* suggestMeetingTimes contains the segment Tuesday 14.0-15.0 with         *)
(* attendance 3, and it comes before every returned segment with           *)
(* attendance 2.                                                           *)
ScenarioCRanksFirst ==
  (suggestions.computed /\ ScenarioCGroup)
    => \E i \in DOMAIN suggestions.result :
         /\ suggestions.result[i] = ScenarioCSegment
         /\ \A j \in DOMAIN suggestions.result :
              suggestions.result[j].attendance = 2 => i < j

(* Scenario C with a longer Monday segment of attendance 2, found earlier  *)
(* in the scan, returned after the Tuesday segment.                        *)
ScenarioCAboveLongerSegment ==
  /\ suggestions.computed
  /\ ScenarioCGroup
  /\ Len(suggestions.result) >= 2
  /\ suggestions.result[1] = ScenarioCSegment
  /\ suggestions.result[2] = MeetingSuggestion(days[2], Hr(8), Hr(10), 2)

(* C18: the list returned by suggestMeetingTimes has at most topN entries, *)
(* is ordered by attendance descending with ties by duration descending,   *)
(* and no segment left out has a strictly higher attendance than a         *)
(* returned one.                                                           *)
SuggestionsRanked ==
  suggestions.computed
    => LET result == suggestions.result
           segments == collectSegments(blocks \o allMemberBlocks,
                                       suggestions.groupSize, 1)
       IN /\ Len(result) <= suggestions.topN
          /\ \A i, j \in DOMAIN result :
               i < j =>
                 \/ result[i].attendance > result[j].attendance
                 \/ /\ result[i].attendance = result[j].attendance
                    /\ (result[i].end - result[i].start)
                         >= (result[j].end - result[j].start)
          /\ \A k \in DOMAIN segments :
               (\A i \in DOMAIN result : result[i] # segments[k])
                 => \A i \in DOMAIN result :
                      segments[k].attendance <= result[i].attendance

(* topN segments are returned and one is left out; the first two have the  *)
(* same attendance, and the longer one, on Saturday, comes before the      *)
(* Monday one although the scan found it later.                            *)
LongerSaturdayFirst ==
  /\ suggestions.computed
  /\ Len(suggestions.result) = suggestions.topN
  /\ suggestions.topN >= 2
  /\ Len(collectSegments(blocks \o allMemberBlocks, suggestions.groupSize, 1))
       > suggestions.topN
  /\ suggestions.result[1].attendance = suggestions.result[2].attendance
  /\ suggestions.result[1].day = days[7]
  /\ suggestions.result[2].day = days[2]
  /\ (suggestions.result[1].end - suggestions.result[1].start)
       > (suggestions.result[2].end - suggestions.result[2].start)

(* C19: every segment returned by suggestMeetingTimes lies within one day, *)
(* has attendance at least max(2, floor(groupSize * 0.5)), and at every    *)
(* 0.25-hour sample it spans the count of distinct owners with an          *)
(* Available interval covering the sample equals its attendance.           *)
SegmentsUniform ==
  suggestions.computed
    => \A i \in DOMAIN suggestions.result :
         LET segment == suggestions.result[i]
         IN /\ \E d \in DOMAIN days : segment.day = days[d]
            /\ Hr(FirstHour) <= segment.start
            /\ segment.start < segment.end
            /\ segment.end <= Hr(LastHour)
            /\ segment.attendance >= Max(2, suggestions.groupSize \div 2)
            /\ \A hour \in SampleHours :
                 (segment.start <= hour /\ hour < segment.end)
                   => Cardinality(OwnersFreeAt(segment.day, hour))
                        = segment.attendance

(* Two returned segments of the same day meet at a sample where the        *)
(* attendance changes while still meeting the threshold, and a returned    *)
(* segment ends with the day.                                              *)
RunSplitAtAttendanceChange ==
  /\ suggestions.computed
  /\ \E i, j \in DOMAIN suggestions.result :
       /\ suggestions.result[i].day = suggestions.result[j].day
       /\ suggestions.result[i].end = suggestions.result[j].start
       /\ suggestions.result[i].attendance # suggestions.result[j].attendance
  /\ \E i \in DOMAIN suggestions.result :
       suggestions.result[i].end = Hr(LastHour)

----------------------------------------------------------------------------
(* Properties of what is saved, of ownership and of the view state *)

(* Sorted, pairwise non-overlapping and non-touching per (day, status). *)
IsCanonical(bs) ==
  \A i, j \in DOMAIN bs :
    (/\ i < j
     /\ bs[i].day = bs[j].day
     /\ bs[i].status = bs[j].status)
      => bs[i].endHour < bs[j].startHour

(* C21: whenever a save is issued, the local person's intervals that are   *)
(* serialized are in canonical form: per (day, status) sorted, pairwise    *)
(* non-overlapping and non-touching, also while a resize is in progress    *)
(* and directly after a load.                                              *)
SaveSerializesCanonical ==
  [][ (/\ savePc["local"] = "idle"
       /\ savePc'["local"] = "delete")
        => /\ IsCanonical(blocks)
           /\ IsCanonical(LoadedBlocks(InsertedRows("local", saveRecords'["local"])))
    ]_vars

(* C22: no edit of the local person's blocks (drag commit, exact-time add, *)
(* resize, click-delete, merge) changes the other members' blocks, which   *)
(* change only when a load completes; and every block of the local set is  *)
(* owned by the local person.                                              *)
OthersReadOnly ==
  /\ [](\A i \in DOMAIN blocks : blocks[i].userId = currentUserId)
  /\ [](\A i \in DOMAIN allMemberBlocks :
          allMemberBlocks[i].userId # currentUserId)
  /\ [][allMemberBlocks' # allMemberBlocks
          => (loadState = "pending" /\ loadState' = "done")]_vars

(* Another member's blocks are loaded, and the local person has added a    *)
(* block and committed a resize of it down to 22.0.                        *)
EditedBesideOthers ==
  /\ Len(allMemberBlocks) > 0
  /\ nextId = Len(db) + 1
  /\ ~isResizing
  /\ \E i \in DOMAIN blocks : blocks[i].endHour = Hr(LastHour)

(* C23: the two overlap filter flags are never both active, and a step     *)
(* that activates one of them while the other is active deactivates the    *)
(* other.                                                                  *)
FiltersExclusive ==
  /\ [](~(showOnlyOverlapFree /\ showOnlyOverlapBusy))
  /\ [][ /\ (~showOnlyOverlapFree /\ showOnlyOverlapFree' /\ showOnlyOverlapBusy)
            => ~showOnlyOverlapBusy'
         /\ (~showOnlyOverlapBusy /\ showOnlyOverlapBusy' /\ showOnlyOverlapFree)
            => ~showOnlyOverlapFree' ]_vars

(* The busy-overlap filter is active and the filter buttons are shown, so  *)
(* the free-overlap button can be clicked.                                 *)
BusyFilterShown ==
  /\ showOnlyOverlapBusy
  /\ ~showOnlyOverlapFree
  /\ Cardinality(visibleMembers) > 1

(* C24: the visibility set starts as exactly the local person, and a step  *)
(* that changes it flips the membership of exactly one member and leaves   *)
(* every other membership as it is: only toggleMember changes it, no drag, *)
(* resize, add, save or load step does.                                    *)
VisibilityOnlyToggled ==
  /\ visibleMembers = {currentUserId}
  /\ [][visibleMembers' # visibleMembers
          => /\ \E userId \in members :
                  visibleMembers' =
                    IF userId \in visibleMembers
                      THEN visibleMembers \ {userId}
                      ELSE visibleMembers \cup {userId}
             /\ UNCHANGED <<dataVars, dragVars, resizeVars, saveVars, loadState>>
     ]_vars

(* After the load the local person has been hidden and the two other       *)
(* members shown.                                                          *)
OnlyOthersVisible ==
  /\ loadState = "done"
  /\ visibleMembers = members \ {currentUserId}
  /\ Cardinality(visibleMembers) = NumMembers - 1

----------------------------------------------------------------------------
(* Properties of the conflict test and of the drag commit *)

(* Bounds of candidate intervals: the grid hours around the cells and the  *)
(* bounds of the local person's blocks.                                    *)
CandidateHours ==
  {Hr(h) : h \in FirstHour .. Min(FirstHour + NumCellHours + 1, LastHour)}
    \cup {blocks[i].startHour : i \in DOMAIN blocks}
    \cup {blocks[i].endHour : i \in DOMAIN blocks}

Overlaps(startHour, endHour, block) ==
  startHour < block.endHour /\ block.startHour < endHour

(* C25: for intervals with start < end, each of the three conflict checks  *)
(* (exact-time add, drag-add, resize) reports a conflict iff some local    *)
(* block of the same day and the opposite status satisfies                 *)
(* candidate.start < other.end and other.start < candidate.end; touching   *)
(* is no conflict and blocks of the same status never cause one.           *)
ConflictIffOverlap ==
  (\A i \in DOMAIN blocks : blocks[i].startHour < blocks[i].endHour)
    => /\ \A startHour, endHour \in CandidateHours :
            startHour < endHour =>
              /\ \A i \in DOMAIN blocks :
                   RangeConflict(startHour, endHour, blocks[i])
                     <=> Overlaps(startHour, endHour, blocks[i])
              /\ \A day \in InputDays, type \in Statuses :
                   AddHasConflict(blocks, day, startHour, endHour, type)
                     <=> \E i \in DOMAIN blocks :
                           /\ blocks[i].day = day
                           /\ blocks[i].status # type
                           /\ Overlaps(startHour, endHour, blocks[i])
              /\ \A k \in DOMAIN blocks :
                   ResizeHasConflict(blocks, blocks[k], startHour, endHour)
                     <=> \E i \in DOMAIN blocks :
                           /\ blocks[i].id # blocks[k].id
                           /\ blocks[i].day = blocks[k].day
                           /\ blocks[i].status # blocks[k].status
                           /\ Overlaps(startHour, endHour, blocks[i])
       /\ \A minHour, maxHour \in CellHours :
            minHour <= maxHour =>
              \A i \in DOMAIN blocks :
                CellRangeOverlap(blocks[i], minHour, maxHour)
                  <=> Overlaps(minHour, maxHour + Hr(1), blocks[i])
       /\ DragActive =>
            (DragHasConflict
               <=> \E i \in DOMAIN blocks :
                     /\ blocks[i].day = dragStartCell.day
                     /\ blocks[i].status # blockType
                     /\ Overlaps(DragMinHour, DragMaxHour + Hr(1), blocks[i]))

(* An add-mode drag starts on the cell at which a block of the other       *)
(* status ends: the candidate touches the block and is no conflict.        *)
DragTouchesOpposite ==
  /\ DragActive
  /\ dragMode = "add"
  /\ ~DragHasConflict
  /\ \E i \in DOMAIN blocks :
       /\ blocks[i].day = dragStartCell.day
       /\ blocks[i].status # blockType
       /\ DragMinHour = blocks[i].endHour

(* C26: a conflict-free add-mode drag commit over [lo, hi) removes only    *)
(* blocks of the creation status that are fully enclosed by [lo, hi)       *)
(* before it inserts [lo, hi) and merges, so every block of the creation   *)
(* status is still covered by a block of that status after the commit.     *)
DragAddKeepsCoverage ==
  (DragActive /\ dragMode = "add" /\ ~DragHasConflict)
    => /\ \A i \in DOMAIN blocks :
            (\A j \in DOMAIN DragFilteredBlocks : DragFilteredBlocks[j] # blocks[i])
              => /\ blocks[i].day = dragStartCell.day
                 /\ blocks[i].status = blockType
                 /\ DragMinHour <= blocks[i].startHour
                 /\ blocks[i].endHour <= DragMaxHour + Hr(1)
       /\ \A i \in DOMAIN blocks :
            blocks[i].status = blockType
              => \E j \in DOMAIN MouseUpResult.blocks :
                   /\ MouseUpResult.blocks[j].day = blocks[i].day
                   /\ MouseUpResult.blocks[j].status = blockType
                   /\ MouseUpResult.blocks[j].startHour <= blocks[i].startHour
                   /\ blocks[i].endHour <= MouseUpResult.blocks[j].endHour

(* C27: a remove-mode drag commit over [lo, hi), lo = min(anchor, current) *)
(* and hi = max(anchor, current) + 1, deletes exactly the local blocks of  *)
(* the drag day with start < hi and lo < end, whatever their status; each  *)
(* is removed whole, and every other block is left as it is.               *)
RemoveDragExact ==
  (DragActive /\ dragMode = "remove")
    => LET Keep(block) ==
             ~(/\ block.day = dragStartCell.day
               /\ block.startHour < DragMaxHour + Hr(1)
               /\ DragMinHour < block.endHour)
       IN /\ MouseUpResult.blocks = SelectSeq(blocks, Keep)
          /\ MouseUpResult.nextId = nextId

(* A remove-mode drag covers part of a block whose status is not the       *)
(* creation status and which starts before the dragged cells, while        *)
(* another block of the day lies outside them.                             *)
RemoveDragOverPartOfBlock ==
  /\ DragActive
  /\ dragMode = "remove"
  /\ \E i, j \in DOMAIN blocks :
       /\ blocks[i].day = dragStartCell.day
       /\ blocks[i].status # blockType
       /\ blocks[i].startHour < DragMinHour
       /\ DragMinHour < blocks[i].endHour
       /\ blocks[j].day = dragStartCell.day
       /\ blocks[j].endHour <= DragMinHour

----------------------------------------------------------------------------
(* Properties of the gestures *)

(* The step is a pointer-down that starts a drag: the anchor and the       *)
(* current cell are the same cell, and the mode is remove iff that cell    *)
(* lies in one of the local person's blocks of that day.                   *)
DragStartsHere ==
  /\ isDragging'
  /\ dragStartCell' # null
  /\ dragCurrentCell' = dragStartCell'
  /\ dragMode' =
       IF \E i \in DOMAIN blocks :
            /\ blocks[i].day = dragStartCell'.day
            /\ blocks[i].startHour <= dragStartCell'.hour
            /\ dragStartCell'.hour < blocks[i].endHour
         THEN "remove" ELSE "add"

(* C28: a pointer-down on a cell that starts a drag records the cell as    *)
(* the anchor and sets the mode to remove iff the cell belongs to one of   *)
(* the local person's blocks on that day, and to add otherwise; the mode   *)
(* and the anchor do not change for the rest of the gesture.               *)
DragModeSetAtPointerDown ==
  [][ /\ (~isDragging /\ isDragging') => DragStartsHere
      /\ (isDragging /\ isDragging'
            /\ (dragMode' # dragMode \/ dragStartCell' # dragStartCell))
           => DragStartsHere
      /\ dragMode' # dragMode => DragStartsHere
    ]_vars

(* A remove-mode drag has moved from its anchor to a cell outside every    *)
(* block, and the creation status is not the status of the anchor's block. *)
RemoveDragMovedOffBlock ==
  /\ DragActive
  /\ dragMode = "remove"
  /\ dragCurrentCell # dragStartCell
  /\ ~hasMyBlock(dragCurrentCell.day, dragCurrentCell.hour)
  /\ \E i \in DOMAIN blocks :
       /\ blocks[i].day = dragStartCell.day
       /\ blocks[i].startHour <= dragStartCell.hour
       /\ dragStartCell.hour < blocks[i].endHour
       /\ blocks[i].status # blockType

(* C29: the drag and the resize gestures are mutually exclusive: isDragging *)
(* and isResizing are never both true, and a pointer-down on a cell while  *)
(* a resize is in progress leaves the drag state unchanged.                *)
GesturesExclusive ==
  /\ [](~(isDragging /\ isResizing))
  /\ [][isResizing => UNCHANGED <<isDragging, dragStartCell, dragMode>>]_vars

(* C30: while a drag is in progress a pointer move onto a cell of another  *)
(* day than the anchor's leaves the drag as it is, so the current cell is  *)
(* always on the anchor's day, and the commit adds and removes blocks on   *)
(* the anchor's day only.                                                  *)
DragStaysOnAnchorDay ==
  DragActive
    => /\ dragCurrentCell.day = dragStartCell.day
       /\ \A j \in DOMAIN MouseUpResult.blocks :
            (\A i \in DOMAIN blocks : blocks[i] # MouseUpResult.blocks[j])
              => MouseUpResult.blocks[j].day = dragStartCell.day
       /\ \A i \in DOMAIN blocks :
            (\A j \in DOMAIN MouseUpResult.blocks :
               MouseUpResult.blocks[j] # blocks[i])
              => blocks[i].day = dragStartCell.day

(* A drag anchored on the second day has moved to another cell of that day *)
(* while the first day holds a block on the row of the current cell.       *)
DragBesideOtherDay ==
  /\ DragActive
  /\ dragStartCell.day = days[NumDays]
  /\ dragCurrentCell.hour # dragStartCell.hour
  /\ \E i \in DOMAIN blocks :
       /\ blocks[i].day = days[1]
       /\ blocks[i].startHour <= dragCurrentCell.hour
       /\ dragCurrentCell.hour < blocks[i].endHour

----------------------------------------------------------------------------
(* Properties of the resize *)

(* C31: after every resize move the resized block still has end - start >= *)
(* 0.25: a moved bottom edge is never below start + 0.25 and a moved top   *)
(* edge never above end - 0.25, so a resize neither inverts a block nor    *)
(* collapses it.                                                           *)
ResizeKeepsMinSpan ==
  isResizing =>
    \A i \in DOMAIN blocks :
      (blocks[i].id = resizingBlockId /\ blocks[i].day = resizeDay)
        => /\ blocks[i].endHour >= blocks[i].startHour + MinSpan
           /\ blocks[i].startHour <= blocks[i].endHour - MinSpan

(* A resize move has been clamped: the block being resized is exactly 0.25 *)
(* long.                                                                   *)
ResizedToMinSpan ==
  /\ isResizing
  /\ \E i \in DOMAIN blocks :
       /\ blocks[i].id = resizingBlockId
       /\ blocks[i].endHour - blocks[i].startHour = MinSpan

(* C32: when a resize ends with pointer-up the merge runs over the whole   *)
(* local set: right after the commit blocks is the merge of the blocks     *)
(* before it and is in canonical form, the resize session is cleared, and  *)
(* the commit itself starts or changes no drag.                            *)
ResizeCommitMerges ==
  [][(isResizing /\ ~isResizing')
       => /\ blocks' = mergeOverlappingBlocks(blocks)
          /\ IsCanonical(blocks')
          /\ resizingBlockId' = nullId
          /\ resizeEdge' = "null"
          /\ resizeDay' = "null"
          /\ UNCHANGED dragVars]_vars

(* A resize has ended after the first of two loaded blocks was stretched   *)
(* over the second: one block from the first start to the end of the day   *)
(* is left.                                                                *)
ResizeCommitCoalesced ==
  /\ ~isResizing
  /\ Len(blocks) = 1
  /\ blocks[1].startHour = Hr(9)
  /\ blocks[1].endHour = Hr(LastHour)

----------------------------------------------------------------------------
(* Properties of the hour grid, of the gestures' lifetime and of the ids *)

(* C33: after any sequence of drags, exact-time adds and resizes every     *)
(* start and every end of every local block is a multiple of 0.25 hours.   *)
OnQuarterGrid ==
  \A i \in DOMAIN blocks :
    /\ blocks[i].startHour % MinSpan = 0
    /\ blocks[i].endHour % MinSpan = 0

(* C34: a drag session is created by a pointer-down on a cell and consumed *)
(* by the next pointer-up or pointer-leave, whether the gesture commits or *)
(* is discarded on conflict: when isDragging falls, anchor and current     *)
(* cell are null; with a pointer-up that is not postponed forever every    *)
(* Dragging state is followed by an Idle one; and the records of a save    *)
(* are made of blocks alone, also while a drag is pending.                 *)
DragSessionConsumed ==
  /\ [][(~isDragging /\ isDragging')
          => (dragStartCell' # null /\ dragCurrentCell' = dragStartCell')]_vars
  /\ [][(isDragging /\ ~isDragging')
          => (dragStartCell' = null /\ dragCurrentCell' = null)]_vars
  /\ [](~isDragging => (dragStartCell = null /\ dragCurrentCell = null))
  /\ [][(~saving["local"] /\ saving'["local"])
          => saveRecords'["local"] = availabilityRecords(blocks)]_vars
  /\ (isDragging ~> ~isDragging)

(* A drag has been committed by a pointer-up and its block is being saved: *)
(* the machine is idle, the session is cleared, and the records in flight  *)
(* are those of blocks.                                                    *)
DragCommittedAndSaved ==
  /\ ~isDragging
  /\ dragStartCell = null
  /\ dragCurrentCell = null
  /\ nextId > 0
  /\ Len(blocks) > 0
  /\ savePc["local"] = "insert"
  /\ saveRecords["local"] = availabilityRecords(blocks)

(* The quarter hours of the day at which some block of bs of the day and   *)
(* status is running.                                                      *)
Coverage(bs, day, status) ==
  { t \in {Hr(FirstHour) + k * MinSpan : k \in 0 .. (LastHour - FirstHour) * 4} :
      \E i \in DOMAIN bs :
        /\ bs[i].day = day
        /\ bs[i].status = status
        /\ bs[i].startHour <= t
        /\ t < bs[i].endHour }

(* C35: mergeOverlappingBlocks preserves coverage: for every day and       *)
(* status the times covered by the output are those covered by the input;  *)
(* the output never has more blocks than the input, and the empty input    *)
(* gives the empty output.                                                 *)
MergePreservesCoverage ==
  LET merged == mergeOverlappingBlocks(blocks)
  IN /\ \A day \in InputDays, status \in Statuses :
          Coverage(merged, day, status) = Coverage(blocks, day, status)
     /\ Len(merged) <= Len(blocks)
     /\ (blocks = << >> => merged = << >>)

(* The merge has made one block out of two that between them cover every   *)
(* hour of the range.                                                      *)
MergeCoveredWholeRange ==
  /\ nextId = 2
  /\ Len(blocks) = 1
  /\ blocks[1].endHour - blocks[1].startHour = Hr(MergeHours)

(* C36: a resize move changes at most one block, the one whose id is the   *)
(* resize target, and of that block only the dragged edge: its other       *)
(* bound, day, status, owner and id, every other block of the local person *)
(* and the other members' blocks are as before the move.                   *)
ResizeMoveChangesOneEdge ==
  [][\A y \in MouseYs :
       (ResizeListening /\ blocks' = ResizedBlocks(y) /\ blocks' # blocks)
         => /\ DOMAIN blocks' = DOMAIN blocks
            /\ Cardinality({i \in DOMAIN blocks : blocks'[i] # blocks[i]}) = 1
            /\ \A i \in DOMAIN blocks :
                 blocks'[i] # blocks[i]
                   => /\ blocks[i].id = resizingBlockId
                      /\ blocks'[i].id = blocks[i].id
                      /\ blocks'[i].day = blocks[i].day
                      /\ blocks'[i].status = blocks[i].status
                      /\ blocks'[i].userId = blocks[i].userId
                      /\ (resizeEdge = "bottom"
                            => blocks'[i].startHour = blocks[i].startHour)
                      /\ (resizeEdge = "top"
                            => blocks'[i].endHour = blocks[i].endHour)
            /\ UNCHANGED allMemberBlocks]_vars

(* The bottom edge of one of two blocks of a day has been moved to the end *)
(* of the day while the other block of that day ends earlier.              *)
ResizedOneOfTwo ==
  /\ isResizing
  /\ resizeEdge = "bottom"
  /\ \E i, j \in DOMAIN blocks :
       /\ i # j
       /\ blocks[i].id = resizingBlockId
       /\ blocks[i].endHour = Hr(LastHour)
       /\ blocks[j].day = blocks[i].day
       /\ blocks[j].endHour < Hr(LastHour)

(* C37: once an edit has been committed to the local person's blocks, the  *)
(* completion of the asynchronous load does not overwrite or discard it:   *)
(* every block that is in blocks when the load completes is in blocks      *)
(* afterwards, whatever the order of the completion and the pointer and    *)
(* form events.                                                            *)
LoadKeepsEdits ==
  [][(loadState = "pending" /\ loadState' = "done")
       => \A i \in DOMAIN blocks :
            \E j \in DOMAIN blocks' : blocks'[j] = blocks[i]]_vars

(* C38: the saving flag is true from the click on Save until the save has  *)
(* ended and is false after every outcome (success, delete error, insert   *)
(* error); while it is true no second save is started from this component  *)
(* (the records and the flag of the running save stay as they are); and,   *)
(* the persistence calls returning, every save ends: saving does not stay  *)
(* true forever.                                                           *)
SavingFlagReset ==
  /\ [](saving["local"] <=> savePc["local"] # "idle")
  /\ [][saving["local"]
          => /\ saveRecords'["local"] = saveRecords["local"]
             /\ savePc'["local"] # "delete" \/ savePc["local"] = "delete"]_vars
  /\ [][(saving["local"] /\ ~saving'["local"])
          => saveMessage'["local"] \in {SavedMessage, ErrorMessage}]_vars
  /\ (saving["local"] ~> ~saving["local"])

(* A save of a person with persisted rows has ended on the error of the    *)
(* delete request: the flag is reset, the error is shown and the rows are  *)
(* still in the table.                                                     *)
SaveEndedOnDeleteError ==
  /\ ~saving["local"]
  /\ savePc["local"] = "idle"
  /\ saveMessage["local"] = ErrorMessage
  /\ Len(persistedBefore["local"]) > 0
  /\ OwnRows(db) = persistedBefore["local"]

(* C39: after any sequence of loads, drag-adds, exact-time adds, merges,   *)
(* removes and resizes the ids of the local person's blocks are pairwise   *)
(* distinct, so that a resize or a click-delete addressed by id affects    *)
(* exactly one block.                                                      *)
IdsDistinct ==
  \A i, j \in DOMAIN blocks : blocks[i].id = blocks[j].id => i = j

(* Two blocks added one after the other are on the same day, apart from    *)
(* each other.                                                             *)
TwoAddedSameDay ==
  /\ nextId = 2
  /\ Len(blocks) = 2
  /\ blocks[1].day = blocks[2].day
  /\ blocks[1].id # blocks[2].id

====
